---- MODULE Spec2Model ----
(***************************************************************************)
(* yobr: package build stages inferred from Buildroot stamp files, and the *)
(* monitor which caches them (src/yobr/br.py).                             *)
(***************************************************************************)
EXTENDS FiniteSets, Integers, Sequences, TLC

VARIABLES
    pkg_builds,   \* PkgBuildMonitor._pkg_builds: dict name -> PkgBuild, as the
                  \* sequence of its values in insertion order (key = info.name)
    stages,       \* PkgBuildMonitor._stages: dict name -> PkgBuildStage
    fs,           \* the build directories on disk: build_dir -> [state, files]
    ret,          \* the last call or event: [op, arg, raised, value]
    pre,          \* history: _stages as it was when the last call began
    fs_changes,   \* history: number of changes made to the disk so far
    br_info,      \* the `show-info` report given to pkg_infos_from_br_info:
                  \* dict name -> dict, as the sequence of its items
    objs,         \* the package information objects being compared, and the
                  \* hash seed of the process (PYTHONHASHSEED)
    call,         \* a pkg_build.stage call in progress: the probes done, the
                  \* stage the disk gave when it began
    ui,           \* the package grid and the details pane: which grid items
                  \* are selected, the current selection, the package the
                  \* details pane explains
    app           \* the application: the position of main(), the update()
                  \* calls in progress, the events Qt has queued and what
                  \* the `updated` signal last notified

\* the variables the monitor and the package builds leave alone
other_vars == <<br_info, objs, call, ui, app>>

vars == <<pkg_builds, stages, fs, ret, pre, fs_changes, br_info, objs, call, ui, app>>

----------------------------------------------------------------------------
(* Bounds                                                                  *)

\* number of changes the build makes on disk during one behaviour
MaxFsChanges == 4

----------------------------------------------------------------------------
(* Python values                                                           *)

\* an optional value: None is the empty tuple, a present value x is <<x>>
None == <<>>

Some(x) == <<x>>

\* a call which returns v
Return(v) == [raised |-> FALSE, value |-> v]

\* a call which raises exception exc
Raise(exc) == [raised |-> TRUE, value |-> exc]

\* d[k] = v on a dict
DictSet(d, k, v) == [x \in (DOMAIN d) \cup {k} |-> IF x = k THEN v ELSE d[x]]

----------------------------------------------------------------------------
(* PkgBuildStage                                                           *)

UNKNOWN == "unknown"

DOWNLOADED == "downloaded"

EXTRACTED == "extracted"

PATCHED == "patched"

CONFIGURED == "configured"

BUILT == "built"

INSTALLED == "installed"

PkgBuildStage == {UNKNOWN, DOWNLOADED, EXTRACTED, PATCHED, CONFIGURED, BUILT, INSTALLED}

----------------------------------------------------------------------------
(* Package information objects                                             *)

\* the dependencies of an object are references to other objects: each is
\* held as the name of the object it refers to
TargetPkgInfo(name, is_virtual, version, licenses, dl_dir, install_target, install_staging, install_images, dependencies) ==
    [type |-> "TargetPkgInfo", name |-> name, is_virtual |-> is_virtual,
     version |-> version, licenses |-> licenses, dl_dir |-> dl_dir,
     install_target |-> install_target, install_staging |-> install_staging,
     install_images |-> install_images, dependencies |-> dependencies]

HostPkgInfo(name, is_virtual, version, licenses, dl_dir, dependencies) ==
    [type |-> "HostPkgInfo", name |-> name, is_virtual |-> is_virtual,
     version |-> version, licenses |-> licenses, dl_dir |-> dl_dir,
     dependencies |-> dependencies]

\* is_installable which asks for every install flag
is_installable_all(info) ==
    IF info.type = "TargetPkgInfo"
    THEN info.install_target /\ info.install_staging /\ info.install_images
    ELSE TRUE

\* TargetPkgInfo.is_installable, HostPkgInfo.is_installable
is_installable(info) ==
    IF info.type = "TargetPkgInfo"
    THEN info.install_target \/ info.install_staging \/ info.install_images
    ELSE TRUE

----------------------------------------------------------------------------
(* The values of a show-info report                                        *)

\* a value of the report (json.loads output): its Python type, then what it
\* holds; a list holds the names which follow its type
PyStr(x) == <<"str", x>>

PyBool(b) == <<"bool", IF b THEN "True" ELSE "False">>

PyInt(x) == <<"int", x>>

PyList(names) == <<"list">> \o names

\* type(value).__name__
pytype(value) == value[1]

\* the model's value of a str or None, of a bool, of a list
opt_str(value) == IF value = None THEN None ELSE Some(value[2])

truth(value) == value[2] = "True"

items(value) == Tail(value)

\* an exception: its class, then the parts of its message, which are the
\* texts its back quotes separate
Exc(class, msg) == <<class>> \o msg

\* str(exc)
message(exc) == Tail(exc)

\* the characters of the package names of the model
chars(name) ==
    CASE name = "app" -> <<"a", "p", "p">>
      [] name = "libfoo" -> <<"l", "i", "b", "f", "o", "o">>
      [] name = "skeleton" -> <<"s", "k", "e", "l", "e", "t", "o", "n">>
      [] name = "skeleton-init" ->
            <<"s", "k", "e", "l", "e", "t", "o", "n", "-", "i", "n", "i", "t">>
      [] name = "host-skeleton" ->
            <<"h", "o", "s", "t", "-", "s", "k", "e", "l", "e", "t", "o", "n">>
      [] name = "host-cmake" -> <<"h", "o", "s", "t", "-", "c", "m", "a", "k", "e">>
      [] name = "ext2" -> <<"e", "x", "t", "2">>
      [] name = "zlib" -> <<"z", "l", "i", "b">>
      [] name = "" -> <<>>

\* a comparison of the whole name in place of name.startswith(prefix)
startswith_whole(name, prefix) == chars(name) = chars(prefix)

\* name.startswith(prefix)
startswith(name, prefix) ==
    /\ Len(chars(name)) >= Len(chars(prefix))
    /\ SubSeq(chars(name), 1, Len(chars(prefix))) = chars(prefix)

\* the items of a dict: the sequence of its <<key, value>> pairs
dict_keys(d) == {d[i][1] : i \in 1..Len(d)}

dict_get(d, k) == d[CHOOSE i \in 1..Len(d) : d[i][1] = k][2]

----------------------------------------------------------------------------
(* The graph builder                                                       *)

\* _get_br_pkg_info_entry which does not check the type of the entry
get_br_pkg_info_entry_unchecked(br_pkg_info, name, type, is_opt, default) ==
    IF name \notin DOMAIN br_pkg_info
    THEN IF ~is_opt
         THEN Raise(Exc("ValueError", <<"missing ", name, " entry">>))
         ELSE Return(default)
    ELSE Return(br_pkg_info[name])

_get_br_pkg_info_entry(br_pkg_info, name, type, is_opt, default) ==
    IF name \notin DOMAIN br_pkg_info
    THEN IF ~is_opt
         THEN Raise(Exc("ValueError", <<"missing ", name, " entry">>))
         ELSE Return(default)
    ELSE IF pytype(br_pkg_info[name]) # type
         THEN Raise(Exc("TypeError",
                        <<"wrong ", name, " entry type: ", pytype(br_pkg_info[name])>>))
         ELSE Return(br_pkg_info[name])

pkg_info_from_br_pkg_info(br_pkg_info, name) ==
    LET is_virtual == _get_br_pkg_info_entry(br_pkg_info, "virtual", "bool", TRUE, PyBool(FALSE))
        version0 == _get_br_pkg_info_entry(br_pkg_info, "version", "str", TRUE, None)
        version == IF version0.value = PyStr("") THEN None ELSE version0.value
        licenses == _get_br_pkg_info_entry(br_pkg_info, "licenses", "str", TRUE, None)
        dl_dir == _get_br_pkg_info_entry(br_pkg_info, "dl_dir", "str", TRUE, None)
        type_str == _get_br_pkg_info_entry(br_pkg_info, "type", "str", FALSE, None)
        install_target ==
            _get_br_pkg_info_entry(br_pkg_info, "install_target", "bool", TRUE, PyBool(FALSE))
        install_staging ==
            _get_br_pkg_info_entry(br_pkg_info, "install_staging", "bool", TRUE, PyBool(FALSE))
        install_images ==
            _get_br_pkg_info_entry(br_pkg_info, "install_images", "bool", TRUE, PyBool(FALSE))
    IN  IF is_virtual.raised THEN is_virtual
        ELSE IF version0.raised THEN version0
        ELSE IF licenses.raised THEN licenses
        ELSE IF dl_dir.raised THEN dl_dir
        ELSE IF type_str.raised THEN type_str
        ELSE IF type_str.value = PyStr("target")
        THEN IF install_target.raised THEN install_target
             ELSE IF install_staging.raised THEN install_staging
             ELSE IF install_images.raised THEN install_images
             ELSE Return(TargetPkgInfo(name, truth(is_virtual.value), opt_str(version),
                                       opt_str(licenses.value), opt_str(dl_dir.value),
                                       truth(install_target.value),
                                       truth(install_staging.value),
                                       truth(install_images.value), {}))
        ELSE IF type_str.value = PyStr("host")
        THEN Return(HostPkgInfo(name, truth(is_virtual.value), opt_str(version),
                                opt_str(licenses.value), opt_str(dl_dir.value), {}))
        ELSE Raise(Exc("ValueError",
                       <<"unknown ", "type", " entry value: ", type_str.value[2]>>))

\* the first loop which re-raises the exception of an entry as it is
RECURSIVE create_pkg_infos_unwrapped(_, _)
create_pkg_infos_unwrapped(br_info_, n) ==
    IF n = 0
    THEN Return(<<>>)
    ELSE LET pkg_infos == create_pkg_infos_unwrapped(br_info_, n - 1)
             name == br_info_[n][1]
             br_pkg_info == br_info_[n][2]
         IN  IF pkg_infos.raised
             THEN pkg_infos
             ELSE IF startswith(name, "skeleton") \/ startswith(name, "host-skeleton")
             THEN pkg_infos
             ELSE IF "type" \notin DOMAIN br_pkg_info
             THEN Raise(Exc("KeyError", <<"'type'">>))
             ELSE IF br_pkg_info["type"] = PyStr("rootfs")
             THEN pkg_infos
             ELSE LET pkg_info == pkg_info_from_br_pkg_info(br_pkg_info, name)
                  IN  IF pkg_info.raised
                      THEN pkg_info
                      ELSE Return(Append(pkg_infos.value, <<name, pkg_info.value>>))

\* the first loop of pkg_infos_from_br_info after n items of the report:
\* the dict of package information objects, or the exception which left it
RECURSIVE create_pkg_infos(_, _)
create_pkg_infos(br_info_, n) ==
    IF n = 0
    THEN Return(<<>>)
    ELSE LET pkg_infos == create_pkg_infos(br_info_, n - 1)
             name == br_info_[n][1]
             br_pkg_info == br_info_[n][2]
         IN  IF pkg_infos.raised
             THEN pkg_infos
             ELSE IF startswith(name, "skeleton") \/ startswith(name, "host-skeleton")
             THEN pkg_infos
             ELSE IF "type" \notin DOMAIN br_pkg_info
             THEN Raise(Exc("KeyError", <<"'type'">>))
             ELSE IF br_pkg_info["type"] = PyStr("rootfs")
             THEN pkg_infos
             ELSE LET pkg_info == pkg_info_from_br_pkg_info(br_pkg_info, name)
                  IN  IF pkg_info.raised
                      THEN Raise(Exc(pkg_info.value[1],
                                     <<name, " package: ">> \o message(pkg_info.value)))
                      ELSE Return(Append(pkg_infos.value, <<name, pkg_info.value>>))

\* the inner loop which links every name of dep_names
RECURSIVE add_dependencies_unchecked(_, _, _)
add_dependencies_unchecked(pkg_infos, dep_names, k) ==
    IF k = 0
    THEN {}
    ELSE add_dependencies_unchecked(pkg_infos, dep_names, k - 1) \cup {dep_names[k]}

\* the dependencies of a package information object after the first k
\* names of dep_names
RECURSIVE add_dependencies(_, _, _)
add_dependencies(pkg_infos, dep_names, k) ==
    IF k = 0
    THEN {}
    ELSE LET dependencies == add_dependencies(pkg_infos, dep_names, k - 1)
         IN  IF dep_names[k] \notin dict_keys(pkg_infos)
             THEN dependencies
             ELSE dependencies \cup {dict_get(pkg_infos, dep_names[k]).name}

\* the second loop which links the package information objects created
\* before the one it updates, and this one, only
RECURSIVE update_dependencies_created_before(_, _, _)
update_dependencies_created_before(br_info_, pkg_infos, n) ==
    IF n = 0
    THEN Return(pkg_infos)
    ELSE LET done == update_dependencies_created_before(br_info_, pkg_infos, n - 1)
             pkg_info == pkg_infos[n][2]
             br_pkg_info == dict_get(br_info_, pkg_info.name)
             dep_names ==
                 _get_br_pkg_info_entry(br_pkg_info, "dependencies", "list", TRUE, PyList(<<>>))
         IN  IF done.raised
             THEN done
             ELSE IF dep_names.raised
             THEN dep_names
             ELSE Return([done.value EXCEPT ![n][2].dependencies =
                              @ \cup add_dependencies(SubSeq(pkg_infos, 1, n),
                                                      items(dep_names.value),
                                                      Len(items(dep_names.value)))])

\* the second loop which never links a package information object to itself
RECURSIVE update_dependencies_no_self(_, _, _)
update_dependencies_no_self(br_info_, pkg_infos, n) ==
    IF n = 0
    THEN Return(pkg_infos)
    ELSE LET done == update_dependencies_no_self(br_info_, pkg_infos, n - 1)
             pkg_info == pkg_infos[n][2]
             br_pkg_info == dict_get(br_info_, pkg_info.name)
             dep_names ==
                 _get_br_pkg_info_entry(br_pkg_info, "dependencies", "list", TRUE, PyList(<<>>))
         IN  IF done.raised
             THEN done
             ELSE IF dep_names.raised
             THEN dep_names
             ELSE Return([done.value EXCEPT ![n][2].dependencies =
                              @ \cup (add_dependencies(pkg_infos, items(dep_names.value),
                                                       Len(items(dep_names.value)))
                                          \ {pkg_info.name})])

\* the second loop of pkg_infos_from_br_info after n package information
\* objects
RECURSIVE update_dependencies(_, _, _)
update_dependencies(br_info_, pkg_infos, n) ==
    IF n = 0
    THEN Return(pkg_infos)
    ELSE LET done == update_dependencies(br_info_, pkg_infos, n - 1)
             pkg_info == pkg_infos[n][2]
             br_pkg_info == dict_get(br_info_, pkg_info.name)
             dep_names ==
                 _get_br_pkg_info_entry(br_pkg_info, "dependencies", "list", TRUE, PyList(<<>>))
         IN  IF done.raised
             THEN done
             ELSE IF dep_names.raised
             THEN dep_names
             ELSE Return([done.value EXCEPT ![n][2].dependencies =
                              @ \cup add_dependencies(pkg_infos, items(dep_names.value),
                                                      Len(items(dep_names.value)))])

pkg_infos_from_br_info(br_info_) ==
    LET pkg_infos == create_pkg_infos(br_info_, Len(br_info_))
    IN  IF pkg_infos.raised
        THEN pkg_infos
        ELSE update_dependencies(br_info_, pkg_infos.value, Len(pkg_infos.value))

----------------------------------------------------------------------------
(* Equality and hash of package information objects                        *)

\* ord(c) for the characters of the package names of the model
ord(c) ==
    CASE c = "-" -> 45 [] c = "2" -> 50 [] c = "a" -> 97 [] c = "b" -> 98
      [] c = "c" -> 99 [] c = "e" -> 101 [] c = "f" -> 102 [] c = "h" -> 104
      [] c = "i" -> 105 [] c = "k" -> 107 [] c = "l" -> 108 [] c = "m" -> 109
      [] c = "n" -> 110 [] c = "o" -> 111 [] c = "p" -> 112 [] c = "s" -> 115
      [] c = "t" -> 116 [] c = "x" -> 120 [] c = "z" -> 122

\* A 64-bit word is the tuple of its four 16-bit limbs, the most
\* significant one first: 0x736f6d6570736575 is <<29551, 28005, 28787, 25973>>.

\* the exclusive or of the n low bits of a and b
RECURSIVE xor_bits(_, _, _)
xor_bits(a, b, n) ==
    IF n = 0
    THEN 0
    ELSE ((a + b) % 2) + 2 * xor_bits(a \div 2, b \div 2, n - 1)

\* a ^ b on 64 bits
xor64(a, b) == <<xor_bits(a[1], b[1], 16), xor_bits(a[2], b[2], 16), xor_bits(a[3], b[3], 16), xor_bits(a[4], b[4], 16)>>

\* a + b on 64 bits (uint64_t: modulo 2^64)
add64(a, b) ==
    LET s0 == a[4] + b[4]
        s1 == a[3] + b[3] + (s0 \div 65536)
        s2 == a[2] + b[2] + (s1 \div 65536)
        s3 == a[1] + b[1] + (s2 \div 65536)
    IN  <<s3 % 65536, s2 % 65536, s1 % 65536, s0 % 65536>>

\* ROTATE(a, r): a rotated left by r bits, 0 < r < 64
rotl64(a, r) ==
    LET limb(j) == a[4 - (j % 4)]
        q == r \div 16
        s == r % 16
        out(j) == ((limb(j + 4 - q) * (2^s)) % 65536) + (limb(j + 3 - q) \div (2^(16 - s)))
    IN  <<out(3), out(2), out(1), out(0)>>

\* SINGLE_ROUND of pyhash.c on the four words v = <<v0, v1, v2, v3>>:
\* HALF_ROUND(v0,v1,v2,v3,13,16); HALF_ROUND(v2,v1,v0,v3,17,21)
SINGLE_ROUND(v) ==
  CASE Len(v) = 4 ->
    LET v0a == add64(v[1], v[2])
        v2a == add64(v[3], v[4])
        v1a == xor64(rotl64(v[2], 13), v0a)
        v3a == xor64(rotl64(v[4], 16), v2a)
        v0b == rotl64(v0a, 32)
        v2b == add64(v2a, v1a)
        v0c == add64(v0b, v3a)
        v1b == xor64(rotl64(v1a, 17), v2b)
        v3b == xor64(rotl64(v3a, 21), v0c)
        v2c == rotl64(v2b, 32)
    IN  <<v0c, v1b, v2c, v3b>>

\* the 64-bit word whose bytes, the least significant first, are buf[from
\* + 1 .. from + 8]; a byte past the end of the sequence is 0
le64(buf, from) ==
    LET byte(i) == IF from + i <= Len(buf) THEN buf[from + i] ELSE 0
    IN  <<byte(7) + 256 * byte(8), byte(5) + 256 * byte(6),
          byte(3) + 256 * byte(4), byte(1) + 256 * byte(2)>>

\* v3 ^= m; SINGLE_ROUND; v0 ^= m
compress(v, m) ==
    LET r == SINGLE_ROUND(<<v[1], v[2], v[3], xor64(v[4], m)>>)
    IN  <<xor64(r[1], m), r[2], r[3], r[4]>>

\* the while loop of siphash13 over the first n whole blocks of 8 bytes
RECURSIVE siphash_blocks(_, _, _)
siphash_blocks(v, src, n) ==
    IF n = 0
    THEN v
    ELSE compress(siphash_blocks(v, src, n - 1), le64(src, 8 * (n - 1)))

\* the initial v0..v3 of siphash13 under the key (k0, k1)
siphash_init(k0, k1) ==
    <<xor64(k0, <<29551, 28005, 28787, 25973>>),
      xor64(k1, <<25711, 29281, 28260, 28525>>),
      xor64(k0, <<27769, 26469, 28261, 29281>>),
      xor64(k1, <<29797, 25698, 31092, 25971>>)>>

\* the last word b of siphash13: the bytes after the whole blocks, with
\* src_sz << 56 in its most significant byte
siphash_tail(src) ==
    LET t == le64(SubSeq(src, 8 * (Len(src) \div 8) + 1, Len(src)), 0)
    IN  <<t[1] + 256 * (Len(src) % 256), t[2], t[3], t[4]>>

\* v0 ^ v1 ^ v2 ^ v3
siphash_fold(v) == xor64(xor64(v[1], v[2]), xor64(v[3], v[4]))

\* v2 ^= 0xff; three rounds; the xor of the four words
siphash_final(v) ==
    siphash_fold(SINGLE_ROUND(SINGLE_ROUND(SINGLE_ROUND(
        <<v[1], v[2], xor64(v[3], <<0, 0, 0, 255>>), v[4]>>))))

\* siphash13(k0, k1, src, src_sz) of pyhash.c
siphash13(k0, k1, src) ==
    siphash_final(compress(siphash_blocks(siphash_init(k0, k1), src, Len(src) \div 8),
                           siphash_tail(src)))

\* one step of lcg_urandom of bootstrap_hash.c on the 32-bit x, held as
\* <<high half, low half>>: x = x * 214013 + 2531011
lcg_step(x) ==
  CASE Len(x) = 2 ->
    LET low == x[2] * 17405 + 40643
    IN  <<(x[1] * 17405 + x[2] * 3 + 38 + (low \div 65536)) % 65536, low % 65536>>

\* x after n steps from the seed
RECURSIVE lcg(_, _)
lcg(seed, n) ==
    IF n = 0
    THEN <<seed \div 65536, seed % 65536>>
    ELSE lcg_step(lcg(seed, n - 1))

\* byte n (from 1) of _Py_HashSecret for PYTHONHASHSEED=seed: 0 for the
\* seed 0, else (x >> 16) & 0xff after n steps of the generator
secret_byte(seed, n) == IF seed = 0 THEN 0 ELSE lcg(seed, n)[1] % 256

\* the key k0 (from = 0: the first 8 bytes of the secret, the least
\* significant first) or k1 (from = 8: the next 8 bytes)
secret_key(seed, from) ==
    <<secret_byte(seed, from + 7) + 256 * secret_byte(seed, from + 8),
      secret_byte(seed, from + 5) + 256 * secret_byte(seed, from + 6),
      secret_byte(seed, from + 3) + 256 * secret_byte(seed, from + 4),
      secret_byte(seed, from + 1) + 256 * secret_byte(seed, from + 2)>>

\* the bytes of the first n characters of a str whose characters are ASCII
RECURSIVE encode(_, _)
encode(cs, n) ==
    IF n = 0
    THEN <<>>
    ELSE Append(encode(cs, n - 1), ord(cs[n]))

\* a 64-bit result as a Py_hash_t: -1 is replaced with -2
Py_hash_t(x) ==
    IF x = <<65535, 65535, 65535, 65535>> THEN <<65535, 65535, 65535, 65534>> ELSE x

\* _Py_HashBytes in a process started with PYTHONHASHSEED=seed: 0 for no
\* bytes, else siphash13 of the bytes under the secret
Py_HashBytes(src, seed) ==
    IF Len(src) = 0
    THEN <<0, 0, 0, 0>>
    ELSE Py_hash_t(siphash13(secret_key(seed, 0), secret_key(seed, 8), src))

\* hash() of a str whose characters are ASCII, in a process started with
\* PYTHONHASHSEED=seed, as the 64 bits of the signed result
hash(name, seed) == Py_HashBytes(encode(chars(name), Len(chars(name))), seed)

\* PkgInfo.__hash__
PkgInfo_hash(self, seed) == hash(self.name, seed)

\* __eq__ which compares the names whatever the classes
PkgInfo_eq_by_name(self, other) == self.name = other.name

\* PkgInfo.__eq__
PkgInfo_eq(self, other) ==
    IF other.type # self.type
    THEN FALSE
    ELSE self.name = other.name

----------------------------------------------------------------------------
(* The disk                                                                *)

_STAMP_FILE_PREFIX == ".stamp_"

\* the name of a file of a build directory: the stamp prefix (or none) and
\* what follows it
File(prefix, rest) == [prefix |-> prefix, rest |-> rest]

StampTokens ==
    {"downloaded", "extracted", "patched", "configured", "built",
     "target_installed", "staging_installed", "images_installed",
     "host_installed"}

\* the files a build directory may hold: the stamp files, and a file which
\* is named like a stamp token without being a stamp file
Files == {File(_STAMP_FILE_PREFIX, t) : t \in StampTokens} \cup {File("", "built")}

\* a build directory is absent, is a directory, or is a directory which
\* this user may neither list nor search (mode 000)
DirEntries ==
    {[state |-> "absent", files |-> {}]}
        \cup {[state |-> s, files |-> F] : s \in {"dir", "noaccess"}, F \in SUBSET Files}

\* os.stat(os.path.join(dir, file)): "ok", or the errno of the OSError
os_stat(f, dir, file) ==
    CASE f[dir].state = "absent" -> "ENOENT"
      [] f[dir].state = "noaccess" -> "EACCES"
      [] OTHER -> IF file \in f[dir].files THEN "ok" ELSE "ENOENT"

\* os.path.exists(): os.stat() with any OSError turned into False
os_path_exists(f, dir, file) == os_stat(f, dir, file) = "ok"

\* os.path.isdir(dir): the directory itself can be examined even when its
\* content cannot
os_path_isdir(f, dir) == f[dir].state # "absent"

\* os.listdir(dir)
os_listdir(f, dir) ==
    CASE f[dir].state = "absent" -> Raise("FileNotFoundError")
      [] f[dir].state = "noaccess" -> Raise("PermissionError")
      [] OTHER -> Return(f[dir].files)

----------------------------------------------------------------------------
(* PkgBuild                                                                *)

\* a package build whose build directory leaves the version out
PkgBuild_name_only(info, br_build_dir) ==
    [info |-> info, build_dir |-> <<br_build_dir, info.name>>]

\* PkgBuild.__init__: the build directory is <br_build_dir>/<name> or
\* <br_build_dir>/<name>-<version>; a path is the tuple of its parts
PkgBuild(info, br_build_dir) ==
    [info |-> info,
     build_dir |-> IF info.version # None
                   THEN <<br_build_dir, info.name, "-", info.version[1]>>
                   ELSE <<br_build_dir, info.name>>]

\* the dict of package builds after the first n package information
\* objects of the loop of pkg_builds_from_make
RECURSIVE pkg_builds_loop(_, _, _)
pkg_builds_loop(pkg_infos, br_build_dir, n) ==
    IF n = 0
    THEN <<>>
    ELSE Append(pkg_builds_loop(pkg_infos, br_build_dir, n - 1),
                PkgBuild(pkg_infos[n][2], br_build_dir))

\* pkg_builds_from_make, the output of make being the report br_info_
pkg_builds_from_make(br_info_, br_build_dir) ==
    LET pkg_infos == pkg_infos_from_br_info(br_info_)
    IN  IF pkg_infos.raised
        THEN pkg_infos
        ELSE Return(pkg_builds_loop(pkg_infos.value, br_build_dir, Len(pkg_infos.value)))

\* stamps without the os.path.isdir() guard
stamps_no_isdir(pb, f) ==
    LET ls == os_listdir(f, pb.build_dir)
    IN  IF ls.raised
        THEN ls
        ELSE Return({file.rest : file \in {x \in ls.value : x.prefix = _STAMP_FILE_PREFIX}})

stamps(pb, f) ==
    IF os_path_isdir(f, pb.build_dir)
    THEN LET ls == os_listdir(f, pb.build_dir)
         IN  IF ls.raised
             THEN ls
             ELSE Return({file.rest : file \in {x \in ls.value : x.prefix = _STAMP_FILE_PREFIX}})
    ELSE Return({})

has_stamp(pb, f, name) ==
    os_path_exists(f, pb.build_dir, File(_STAMP_FILE_PREFIX, name))

is_downloaded(pb, f) == has_stamp(pb, f, "downloaded")

is_extracted(pb, f) == has_stamp(pb, f, "extracted")

is_patched(pb, f) == has_stamp(pb, f, "patched")

is_configured(pb, f) == has_stamp(pb, f, "configured")

is_built(pb, f) == has_stamp(pb, f, "built")

\* is_installed which forgets the install flags of a target package, and
\* one whose host branch probes the target marker
is_installed_any_marker(pb, f) ==
    IF pb.info.type = "TargetPkgInfo"
    THEN \/ has_stamp(pb, f, "target_installed")
         \/ has_stamp(pb, f, "staging_installed")
         \/ has_stamp(pb, f, "images_installed")
    ELSE has_stamp(pb, f, "host_installed")

is_installed_host_as_target(pb, f) ==
    IF pb.info.type = "TargetPkgInfo"
    THEN \/ pb.info.install_target /\ has_stamp(pb, f, "target_installed")
         \/ pb.info.install_staging /\ has_stamp(pb, f, "staging_installed")
         \/ pb.info.install_images /\ has_stamp(pb, f, "images_installed")
    ELSE has_stamp(pb, f, "target_installed")

is_installed(pb, f) ==
    IF pb.info.type = "TargetPkgInfo"
    THEN \/ pb.info.install_target /\ has_stamp(pb, f, "target_installed")
         \/ pb.info.install_staging /\ has_stamp(pb, f, "staging_installed")
         \/ pb.info.install_images /\ has_stamp(pb, f, "images_installed")
    ELSE IF pb.info.type = "HostPkgInfo"
    THEN has_stamp(pb, f, "host_installed")
    ELSE FALSE

\* stage which probes `configured` before `built`
stage_configured_first(pb, f) ==
    IF is_installed(pb, f) THEN INSTALLED
    ELSE IF is_configured(pb, f) THEN CONFIGURED
    ELSE IF is_built(pb, f) THEN BUILT
    ELSE IF is_patched(pb, f) THEN PATCHED
    ELSE IF is_extracted(pb, f) THEN EXTRACTED
    ELSE IF is_downloaded(pb, f) THEN DOWNLOADED
    ELSE UNKNOWN

\* PkgBuild.stage
stage(pb, f) ==
    IF is_installed(pb, f) THEN INSTALLED
    ELSE IF is_built(pb, f) THEN BUILT
    ELSE IF is_configured(pb, f) THEN CONFIGURED
    ELSE IF is_patched(pb, f) THEN PATCHED
    ELSE IF is_extracted(pb, f) THEN EXTRACTED
    ELSE IF is_downloaded(pb, f) THEN DOWNLOADED
    ELSE UNKNOWN

\* the probes of stage(), from the lowest stage up
probes_upwards(info) ==
    <<"downloaded", "extracted", "patched", "configured", "built">>
        \o (IF info.type = "TargetPkgInfo"
            THEN (IF info.install_target THEN <<"target_installed">> ELSE <<>>)
                     \o (IF info.install_staging THEN <<"staging_installed">> ELSE <<>>)
                     \o (IF info.install_images THEN <<"images_installed">> ELSE <<>>)
            ELSE IF info.type = "HostPkgInfo"
            THEN <<"host_installed">>
            ELSE <<>>)

\* probes which forget the install flags of a target package
probes_all_markers(info) ==
    (IF info.type = "TargetPkgInfo"
     THEN <<"target_installed", "staging_installed", "images_installed">>
     ELSE IF info.type = "HostPkgInfo"
     THEN <<"host_installed">>
     ELSE <<>>)
        \o <<"built", "configured", "patched", "extracted", "downloaded">>

\* the stamps which stage() probes with has_stamp(), in the order of its
\* probes: those of is_installed (an install flag which is false saves its
\* probe), then built, configured, patched, extracted, downloaded
probes(info) ==
    (IF info.type = "TargetPkgInfo"
     THEN (IF info.install_target THEN <<"target_installed">> ELSE <<>>)
              \o (IF info.install_staging THEN <<"staging_installed">> ELSE <<>>)
              \o (IF info.install_images THEN <<"images_installed">> ELSE <<>>)
     ELSE IF info.type = "HostPkgInfo"
     THEN <<"host_installed">>
     ELSE <<>>)
        \o <<"built", "configured", "patched", "extracted", "downloaded">>

\* the stage which stage() returns when the probe of the stamp succeeds
stage_of_probe(name) ==
    CASE name \in {"target_installed", "staging_installed", "images_installed",
                   "host_installed"} -> INSTALLED
      [] name = "built" -> BUILT
      [] name = "configured" -> CONFIGURED
      [] name = "patched" -> PATCHED
      [] name = "extracted" -> EXTRACTED
      [] name = "downloaded" -> DOWNLOADED

\* stage() once `done` of its has_stamp() calls have failed: the next one,
\* on the disk f, makes it return (the stamp is there, or it was the last
\* probe) or go on to the following probe
stage_probe(pb, f, done) ==
    LET name == probes(pb.info)[done + 1]
    IN  IF has_stamp(pb, f, name)
        THEN [returns |-> TRUE, value |-> stage_of_probe(name)]
        ELSE IF done + 1 = Len(probes(pb.info))
        THEN [returns |-> TRUE, value |-> UNKNOWN]
        ELSE [returns |-> FALSE, value |-> UNKNOWN]

----------------------------------------------------------------------------
(* PkgBuildMonitor                                                         *)

\* the keys of the dict of package builds
Keys(pbs) == {pbs[i].info.name : i \in 1..Len(pbs)}

\* the cache the setter of pkg_builds creates
unknown_stages(pbs) == [n \in Keys(pbs) |-> UNKNOWN]

\* stage() which answers UNKNOWN for a package build it does not track
PkgBuildMonitor_stage_default(st, pb) ==
    IF pb.info.name \in DOMAIN st
    THEN Return(st[pb.info.name])
    ELSE Return(UNKNOWN)

\* PkgBuildMonitor.stage
PkgBuildMonitor_stage(st, pb) ==
    IF pb.info.name \in DOMAIN st
    THEN Return(st[pb.info.name])
    ELSE Raise("KeyError")

\* the count after the first n iterations of the loop of built_count
RECURSIVE built_count_loop(_, _, _)
built_count_loop(pbs, st, n) ==
    IF n = 0
    THEN 0
    ELSE built_count_loop(pbs, st, n - 1)
            + (IF PkgBuildMonitor_stage(st, pbs[n]).value \in {BUILT, INSTALLED} THEN 1 ELSE 0)

\* built_count which counts the BUILT stage alone
built_count_only_built(pbs, st) ==
    Cardinality({i \in 1..Len(pbs) : PkgBuildMonitor_stage(st, pbs[i]).value = BUILT})

built_count(pbs, st) == built_count_loop(pbs, st, Len(pbs))

\* the count after the first n iterations of the loop of installed_count
RECURSIVE installed_count_loop(_, _, _)
installed_count_loop(pbs, st, n) ==
    IF n = 0
    THEN 0
    ELSE installed_count_loop(pbs, st, n - 1)
            + (IF PkgBuildMonitor_stage(st, pbs[n]).value = INSTALLED THEN 1 ELSE 0)

installed_count(pbs, st) == installed_count_loop(pbs, st, Len(pbs))

----------------------------------------------------------------------------
(* The packages of the model                                               *)

BR_BUILD_DIR == "output/build"

PkgInfos ==
    {TargetPkgInfo("app", FALSE, Some("2.0"), None, None, TRUE, FALSE, FALSE, {}),
     HostPkgInfo("host-cmake", FALSE, None, None, None, {})}

PkgBuilds == {PkgBuild(info, BR_BUILD_DIR) : info \in PkgInfos}

\* the dicts given to the monitor: name -> PkgBuild for some of the packages,
\* in any insertion order
PkgMaps ==
    {pbs \in UNION {[1..n -> PkgBuilds] : n \in 0..Cardinality(PkgBuilds)} :
        \A i, j \in 1..Len(pbs) : i # j => pbs[i] # pbs[j]}

Dirs == {pb.build_dir : pb \in PkgBuilds}

FsEvent == [op |-> "fs", arg |-> None, raised |-> FALSE, value |-> None]

Call(op, arg, r) == [op |-> op, arg |-> arg, raised |-> r.raised, value |-> r.value]

----------------------------------------------------------------------------
(* The monitor's operations                                                *)

\* PkgBuildMonitor(pkg_builds)
Init ==
    /\ pkg_builds \in PkgMaps
    /\ stages = unknown_stages(pkg_builds)
    /\ fs = [d \in Dirs |-> [state |-> "absent", files |-> {}]]
    /\ ret = Call("__init__", None, Return(None))
    /\ pre = stages
    /\ fs_changes = 0
    /\ br_info = <<>>
    /\ objs = <<>>
    /\ call = [running |-> FALSE, i |-> 0, done |-> 0, at |-> 0, again |-> FALSE]
    /\ ui = <<>>
    /\ app = <<>>

\* a setter which replaces the package builds and keeps the cache
SetPkgBuilds_keep_cache(pbs) ==
    /\ ~call.running
    /\ pkg_builds' = pbs
    /\ ret' = Call("pkg_builds", None, Return(None))
    /\ pre' = stages
    /\ UNCHANGED <<stages, fs, fs_changes, other_vars>>

\* monitor.pkg_builds = pbs
SetPkgBuilds(pbs) ==
    /\ ~call.running
    /\ pkg_builds' = pbs
    /\ stages' = unknown_stages(pbs)
    /\ ret' = Call("pkg_builds", None, Return(None))
    /\ pre' = stages
    /\ UNCHANGED <<fs, fs_changes, other_vars>>

\* a stage() which probes a tracked package build and caches the result
Stage_read_through(pb) ==
    /\ ~call.running
    /\ stages' = IF pb.info.name \in DOMAIN stages
                 THEN DictSet(stages, pb.info.name, stage(pb, fs))
                 ELSE stages
    /\ ret' = Call("stage", Some(pb.info.name), PkgBuildMonitor_stage(stages', pb))
    /\ pre' = stages
    /\ UNCHANGED <<pkg_builds, fs, fs_changes, other_vars>>

\* monitor.stage(pb)
Stage(pb) ==
    /\ ~call.running
    /\ ret' = Call("stage", Some(pb.info.name), PkgBuildMonitor_stage(stages, pb))
    /\ pre' = stages
    /\ UNCHANGED <<pkg_builds, stages, fs, fs_changes, other_vars>>

\* an update() which leaves out the first package build
UpdateBegins_skip_first ==
    /\ ~call.running
    /\ call' = [running |-> TRUE, i |-> IF Len(pkg_builds) > 0 THEN 1 ELSE 0, done |-> 0,
                at |-> fs_changes,
                again |-> ret.op = "update" /\ ~ret.raised /\ call.at = fs_changes]
    /\ ret' = Call("update begins", None, Return(None))
    /\ pre' = stages
    /\ UNCHANGED <<pkg_builds, stages, fs, fs_changes, br_info, objs, ui, app>>

\* monitor.update() is called: its loop is about to start; the call
\* remembers the number of changes the disk has seen, and whether it
\* follows an update() which returned with no change of the disk during it
\* or since
UpdateBegins ==
    /\ ~call.running
    /\ call' = [running |-> TRUE, i |-> 0, done |-> 0, at |-> fs_changes,
                again |-> ret.op = "update" /\ ~ret.raised /\ call.at = fs_changes]
    /\ ret' = Call("update begins", None, Return(None))
    /\ pre' = stages
    /\ UNCHANGED <<pkg_builds, stages, fs, fs_changes, br_info, objs, ui, app>>

\* a probe whose result is written only while the entry is UNKNOWN
UpdateProbe_unknown_only ==
    /\ call.running
    /\ call.i < Len(pkg_builds)
    /\ LET pkg_build == pkg_builds[call.i + 1]
           probe == stage_probe(pkg_build, fs, call.done)
       IN  IF probe.returns
           THEN /\ stages' = IF stages[pkg_build.info.name] = UNKNOWN
                             THEN DictSet(stages, pkg_build.info.name, probe.value)
                             ELSE stages
                /\ call' = [call EXCEPT !.i = @ + 1, !.done = 0]
           ELSE /\ stages' = stages
                /\ call' = [call EXCEPT !.done = @ + 1]
    /\ UNCHANGED <<pkg_builds, fs, ret, pre, fs_changes, br_info, objs, ui, app>>

\* update(), one system call at a time: the next has_stamp() of the
\* pkg_build.stage of the iteration in progress; when stage returns, its
\* value is written to the cache and the loop goes to the next package build
UpdateProbe ==
    /\ call.running
    /\ call.i < Len(pkg_builds)
    /\ LET pkg_build == pkg_builds[call.i + 1]
           probe == stage_probe(pkg_build, fs, call.done)
       IN  IF probe.returns
           THEN /\ stages' = DictSet(stages, pkg_build.info.name, probe.value)
                /\ call' = [call EXCEPT !.i = @ + 1, !.done = 0]
           ELSE /\ stages' = stages
                /\ call' = [call EXCEPT !.done = @ + 1]
    /\ UNCHANGED <<pkg_builds, fs, ret, pre, fs_changes, br_info, objs, ui, app>>

\* update() returns: its loop is over
UpdateReturns ==
    /\ call.running
    /\ call.i = Len(pkg_builds)
    /\ call' = [call EXCEPT !.running = FALSE]
    /\ ret' = Call("update", None, Return(None))
    /\ UNCHANGED <<pkg_builds, stages, fs, pre, fs_changes, br_info, objs, ui, app>>

\* an exception ends update() at any point between its call and its
\* return: before the loop, between two probes, after the last assignment,
\* and also when there is no package build to scan
UpdateAborted ==
    /\ call.running
    /\ call' = [call EXCEPT !.running = FALSE]
    /\ ret' = Call("update", None, Raise("KeyboardInterrupt"))
    /\ UNCHANGED <<pkg_builds, stages, fs, pre, fs_changes, br_info, objs, ui, app>>

\* monitor.built_count
BuiltCount ==
    /\ ~call.running
    /\ ret' = Call("built_count", None, Return(built_count(pkg_builds, stages)))
    /\ pre' = stages
    /\ UNCHANGED <<pkg_builds, stages, fs, fs_changes, other_vars>>

\* monitor.installed_count
InstalledCount ==
    /\ ~call.running
    /\ ret' = Call("installed_count", None, Return(installed_count(pkg_builds, stages)))
    /\ pre' = stages
    /\ UNCHANGED <<pkg_builds, stages, fs, fs_changes, other_vars>>

----------------------------------------------------------------------------
(* The build, which changes the disk while the monitor watches             *)

FsChange(d, entry) ==
    /\ fs_changes < MaxFsChanges
    /\ fs' = [fs EXCEPT ![d] = entry]
    /\ fs_changes' = fs_changes + 1
    /\ ret' = FsEvent
    /\ UNCHANGED <<pkg_builds, stages, pre, other_vars>>

Mkdir(d) ==
    /\ fs[d].state = "absent"
    /\ FsChange(d, [state |-> "dir", files |-> {}])

RmTree(d) ==
    /\ fs[d].state # "absent"
    /\ FsChange(d, [state |-> "absent", files |-> {}])

Touch(d, file) ==
    /\ fs[d].state = "dir"
    /\ file \notin fs[d].files
    /\ FsChange(d, [fs[d] EXCEPT !.files = @ \cup {file}])

Unlink(d, file) ==
    /\ fs[d].state = "dir"
    /\ file \in fs[d].files
    /\ FsChange(d, [fs[d] EXCEPT !.files = @ \ {file}])

\* chmod 000 and back
Chmod(d) ==
    /\ fs[d].state # "absent"
    /\ FsChange(d, [fs[d] EXCEPT !.state = IF @ = "dir" THEN "noaccess" ELSE "dir"])

\* the stamp files the build creates and removes while the monitor runs
MonitorFiles ==
    {File(_STAMP_FILE_PREFIX, "downloaded"), File(_STAMP_FILE_PREFIX, "built"),
     File(_STAMP_FILE_PREFIX, "host_installed")}

Next ==
    \/ \E pbs \in PkgMaps : SetPkgBuilds(pbs)
    \/ \E pb \in PkgBuilds : Stage(pb)
    \/ UpdateBegins
    \/ UpdateProbe
    \/ UpdateReturns
    \/ UpdateAborted
    \/ BuiltCount
    \/ InstalledCount
    \/ \E d \in Dirs : Mkdir(d)
    \/ \E d \in Dirs : RmTree(d)
    \/ \E d \in Dirs, file \in MonitorFiles : Touch(d, file)
    \/ \E d \in Dirs, file \in MonitorFiles : Unlink(d, file)
    \/ \E d \in Dirs : Chmod(d)

Spec == Init /\ [][Next]_vars

----------------------------------------------------------------------------
(* One package build, probed on an arbitrary build directory               *)

\* the package build probed: a target package with any install flags, or a
\* host package
ProbedInfos ==
    {TargetPkgInfo("app", FALSE, Some("2.0"), None, None, t, s, i, {}) :
        t \in BOOLEAN, s \in BOOLEAN, i \in BOOLEAN}
        \cup {HostPkgInfo("app", FALSE, Some("2.0"), None, None, {})}

InitStage ==
    /\ \E info \in ProbedInfos : pkg_builds = <<PkgBuild(info, BR_BUILD_DIR)>>
    /\ \E entry \in DirEntries :
          fs = [d \in Dirs |-> IF d = pkg_builds[1].build_dir
                               THEN entry
                               ELSE [state |-> "absent", files |-> {}]]
    /\ stages = unknown_stages(pkg_builds)
    /\ ret = Call("__init__", None, Return(None))
    /\ pre = stages
    /\ fs_changes = 0
    /\ br_info = <<>>
    /\ objs = <<>>
    /\ call = <<>>
    /\ ui = <<>>
    /\ app = <<>>

\* pkg_build.stage
GetStage ==
    /\ ret' = Call("PkgBuild.stage", None, Return(stage(pkg_builds[1], fs)))
    /\ UNCHANGED <<pkg_builds, stages, fs, pre, fs_changes, other_vars>>

\* pkg_build.is_installed
GetIsInstalled ==
    /\ ret' = Call("PkgBuild.is_installed", None, Return(is_installed(pkg_builds[1], fs)))
    /\ UNCHANGED <<pkg_builds, stages, fs, pre, fs_changes, other_vars>>

\* pkg_build.stamps
GetStamps ==
    /\ ret' = Call("PkgBuild.stamps", None, stamps(pkg_builds[1], fs))
    /\ UNCHANGED <<pkg_builds, stages, fs, pre, fs_changes, other_vars>>

\* pkg_build.info.is_installable
GetIsInstallable ==
    /\ ret' = Call("is_installable", None, Return(is_installable(pkg_builds[1].info)))
    /\ UNCHANGED <<pkg_builds, stages, fs, pre, fs_changes, other_vars>>

NextStage ==
    \/ GetIsInstallable
    \/ GetStage
    \/ GetIsInstalled
    \/ GetStamps

SpecStage == InitStage /\ [][NextStage]_vars

----------------------------------------------------------------------------
(* pkg_build.stage, one probe at a time, while the build creates files   *)

InitProbe ==
    /\ \E info \in ProbedInfos : pkg_builds = <<PkgBuild(info, BR_BUILD_DIR)>>
    /\ fs = [d \in Dirs |-> [state |-> "absent", files |-> {}]]
    /\ stages = unknown_stages(pkg_builds)
    /\ ret = Call("__init__", None, Return(None))
    /\ pre = stages
    /\ fs_changes = 0
    /\ br_info = <<>>
    /\ objs = <<>>
    /\ call = [done |-> 0, start |-> UNKNOWN, running |-> FALSE]
    /\ ui = <<>>
    /\ app = <<>>

\* pkg_build.stage is called
StageBegins ==
    /\ ~call.running
    /\ call' = [done |-> 0, start |-> stage(pkg_builds[1], fs), running |-> TRUE]
    /\ ret' = Call("PkgBuild.stage begins", None, Return(None))
    /\ UNCHANGED <<pkg_builds, stages, fs, pre, fs_changes, br_info, objs, ui, app>>

\* the next has_stamp() of the call fails: stage() goes on
ProbeFails ==
    /\ call.running
    /\ call.done < Len(probes(pkg_builds[1].info))
    /\ ~has_stamp(pkg_builds[1], fs, probes(pkg_builds[1].info)[call.done + 1])
    /\ call' = [call EXCEPT !.done = @ + 1]
    /\ UNCHANGED <<pkg_builds, stages, fs, ret, pre, fs_changes, br_info, objs, ui, app>>

\* the next has_stamp() of the call succeeds, or no probe is left: stage()
\* returns
StageReturns ==
    /\ call.running
    /\ \/ /\ call.done < Len(probes(pkg_builds[1].info))
          /\ has_stamp(pkg_builds[1], fs, probes(pkg_builds[1].info)[call.done + 1])
          /\ ret' = Call("PkgBuild.stage", None,
                         Return(stage_of_probe(probes(pkg_builds[1].info)[call.done + 1])))
       \/ /\ call.done = Len(probes(pkg_builds[1].info))
          /\ ret' = Call("PkgBuild.stage", None, Return(UNKNOWN))
    /\ call' = [call EXCEPT !.running = FALSE]
    /\ UNCHANGED <<pkg_builds, stages, fs, pre, fs_changes, br_info, objs, ui, app>>

\* the build creates the build directory, a file in it
NextProbe ==
    \/ StageBegins
    \/ ProbeFails
    \/ StageReturns
    \/ Mkdir(pkg_builds[1].build_dir)
    \/ \E file \in Files : Touch(pkg_builds[1].build_dir, file)

SpecProbe == InitProbe /\ [][NextProbe]_vars

----------------------------------------------------------------------------
(* The graph builder on bounded reports                                    *)

MaxReport == 3

\* f restricted to the keys in S
Restrict(f, S) == [x \in S |-> f[x]]

\* an entry of the report: the fields whose value is not None are present
Entry(virtual, version, licenses, dl_dir, type, install_target, install_staging, install_images, dependencies) ==
    LET all == [virtual |-> virtual, version |-> version, licenses |-> licenses,
                dl_dir |-> dl_dir, type |-> type, install_target |-> install_target,
                install_staging |-> install_staging, install_images |-> install_images,
                dependencies |-> dependencies]
    IN  Restrict(all, {k \in DOMAIN all : all[k] # None})

\* the entries each package name may have in a report
EntriesOf(name) ==
    CASE name = "libfoo" ->
            {Entry(None, PyStr("1.2"), PyStr("MIT"), None, PyStr("target"),
                   PyBool(TRUE), PyBool(TRUE), None, PyList(<<>>)),
             Entry(None, None, None, None, PyStr("host"), None, None, None, None),
             Entry(None, PyStr("1.2"), None, None, None, None, None, None, None),
             Entry(None, None, None, None, PyStr("weird"), None, None, None, None),
             Entry(None, PyInt("12"), None, None, PyStr("target"), None, None, None, None),
             Entry(None, None, None, None, PyStr("target"), None, None, None, PyStr("app"))}
      [] name = "app" ->
            {Entry(None, PyStr("2.0"), None, None, PyStr("target"), PyBool(TRUE), None, None,
                   PyList(<<"libfoo", "zlib", "libfoo", "ext2", "skeleton-init">>)),
             Entry(None, PyStr("2.0"), None, None, PyStr("target"), PyBool(TRUE), None, None,
                   PyList(<<"app", "host-cmake", "libfoo">>)),
             Entry(None, PyStr(""), None, None, PyStr("target"), None, None, None, None)}
      [] name = "host-cmake" ->
            {Entry(None, None, None, None, PyStr("host"), None, None, None,
                   PyList(<<"host-skeleton", "app">>)),
             Entry(None, None, None, None, PyStr("host"), None, None, None,
                   PyList(<<"libfoo", "app", "app">>))}
      [] name = "skeleton-init" ->
            {Entry(None, None, None, None, None, None, None, None, None),
             Entry(None, None, None, None, PyStr("target"), None, None, None,
                   PyList(<<"libfoo">>))}
      [] name = "host-skeleton" ->
            {Entry(None, None, None, None, PyStr("host"), None, None, None, None),
             Entry(PyStr("no"), None, None, None, PyInt("1"), None, None, None, None)}
      [] name = "ext2" ->
            {Entry(None, None, None, None, PyStr("rootfs"), None, None, None,
                   PyList(<<"app">>)),
             Entry(None, PyInt("4"), None, None, PyStr("rootfs"), None, None, None,
                   PyStr("app"))}

ReportNames == {"libfoo", "app", "host-cmake", "skeleton-init", "host-skeleton", "ext2"}

\* the reports: at most MaxReport entries under distinct names, in any
\* order of insertion
Reports ==
    {r \in UNION {[1..n -> UNION {{<<name, e>> : e \in EntriesOf(name)} : name \in ReportNames}] :
                      n \in 0..MaxReport} :
        \A i, j \in 1..Len(r) : i # j => r[i][1] # r[j][1]}

\* the values a field of the entry of one package may hold, None when the
\* field is absent
BoolField == {None, PyBool(TRUE), PyBool(FALSE), PyStr("yes")}

StrField == {None, PyStr("x"), PyInt("1")}

ProbedEntries ==
    {Entry(virtual, version, licenses, dl_dir, type, install_target, install_staging,
           install_images, dependencies) :
        virtual \in {None, PyBool(TRUE), PyInt("1")},
        version \in StrField \cup {PyStr("")},
        licenses \in StrField,
        dl_dir \in StrField,
        type \in {None, PyStr("target"), PyStr("host"), PyStr("weird"), PyInt("1")},
        install_target \in BoolField,
        install_staging \in {None, PyBool(TRUE), PyStr("yes")},
        install_images \in {None, PyBool(TRUE), PyStr("yes")},
        dependencies \in {None, PyList(<<"app", "zlib">>), PyStr("zlib")}}

InitGraph ==
    /\ \/ br_info \in Reports
       \/ \E e \in ProbedEntries : br_info = <<<<"app", e>>>>
    /\ pkg_builds = <<>>
    /\ stages = unknown_stages(pkg_builds)
    /\ fs = [d \in Dirs |-> [state |-> "absent", files |-> {}]]
    /\ ret = Call("__init__", None, Return(None))
    /\ pre = stages
    /\ fs_changes = 0
    /\ objs = <<>>
    /\ call = <<>>
    /\ ui = <<>>
    /\ app = <<>>

\* pkg_infos_from_br_info(br_info)
BuildGraph ==
    /\ ret' = Call("pkg_infos_from_br_info", None, pkg_infos_from_br_info(br_info))
    /\ UNCHANGED <<pkg_builds, stages, fs, pre, fs_changes, other_vars>>

\* main(): pkg_builds_from_make(), then the monitor is created over the
\* package builds
PkgBuildsFromMake ==
    LET made == pkg_builds_from_make(br_info, BR_BUILD_DIR)
    IN  /\ ret' = Call("pkg_builds_from_make", None,
                       IF made.raised THEN made ELSE Return(None))
        /\ pkg_builds' = IF made.raised THEN pkg_builds ELSE made.value
        /\ stages' = unknown_stages(pkg_builds')
        /\ pre' = stages
        /\ UNCHANGED <<fs, fs_changes, other_vars>>

NextGraph ==
    \/ BuildGraph
    \/ PkgBuildsFromMake

SpecGraph == InitGraph /\ [][NextGraph]_vars

----------------------------------------------------------------------------
(* Package information objects compared                                    *)

\* the package information objects compared: both classes, names which are
\* equal or not, other fields which are equal or not
ComparedInfos ==
    {TargetPkgInfo(name, FALSE, version, None, None, TRUE, FALSE, FALSE, dependencies) :
         name \in {"app", "libfoo", "zlib"}, version \in {None, Some("2.0")},
         dependencies \in {{}, {"zlib"}}}
        \cup {HostPkgInfo(name, FALSE, version, None, None, dependencies) :
                 name \in {"app", "libfoo", "zlib"}, version \in {None, Some("2.0")},
                 dependencies \in {{}, {"zlib"}}}

HashSeeds == {0, 1, 4242}

InitEq ==
    /\ \E self \in ComparedInfos, other \in ComparedInfos, seed \in HashSeeds :
          objs = [self |-> self, other |-> other, seed |-> seed]
    /\ br_info = <<>>
    /\ call = <<>>
    /\ ui = <<>>
    /\ app = <<>>
    /\ pkg_builds = <<>>
    /\ stages = unknown_stages(pkg_builds)
    /\ fs = [d \in Dirs |-> [state |-> "absent", files |-> {}]]
    /\ ret = Call("__init__", None, Return(None))
    /\ pre = stages
    /\ fs_changes = 0

\* self == other
Eq ==
    /\ ret' = Call("__eq__", None, Return(PkgInfo_eq(objs.self, objs.other)))
    /\ UNCHANGED <<pkg_builds, stages, fs, pre, fs_changes, other_vars>>

\* hash(self), hash(other)
Hash ==
    /\ ret' = Call("__hash__", None,
                   Return(<<PkgInfo_hash(objs.self, objs.seed),
                            PkgInfo_hash(objs.other, objs.seed)>>))
    /\ UNCHANGED <<pkg_builds, stages, fs, pre, fs_changes, other_vars>>

NextEq ==
    \/ Eq
    \/ Hash

SpecEq == InitEq /\ [][NextEq]_vars

----------------------------------------------------------------------------
(* The application: one Qt event loop                                      *)

\* the stamp files the build creates in the runs of the application
AppFiles ==
    {File(_STAMP_FILE_PREFIX, "downloaded"), File(_STAMP_FILE_PREFIX, "built"),
     File(_STAMP_FILE_PREFIX, "host_installed")}

\* what starts an update(): main() itself, the timeout of the refresh
\* timer, the Refresh now action
Events == {"timeout", "triggered"}

\* an update() call in progress: what started it, the number of iterations
\* of its loop which are done, the number of has_stamp() calls which the
\* pkg_build.stage of the current iteration has made, and the names whose
\* entry the call has written
Frame(trigger) == [trigger |-> trigger, i |-> 0, done |-> 0, written |-> {}]

\* the innermost call in progress
Top == app.stack[Len(app.stack)]

\* what the slots connected to `updated` read: the stage of each package
\* build and the two counts
View ==
    [stages |-> [n \in Keys(pkg_builds) |->
                     PkgBuildMonitor_stage(stages, pkg_builds[CHOOSE i \in 1..Len(pkg_builds) :
                                                                  pkg_builds[i].info.name = n]).value],
     built_count |-> built_count(pkg_builds, stages),
     installed_count |-> installed_count(pkg_builds, stages)]

\* main() up to timer.start(): the monitor is created over the package
\* builds, of which there is one at least, and the timer runs
InitApp ==
    /\ pkg_builds \in {pbs \in PkgMaps : Len(pbs) > 0}
    /\ stages = unknown_stages(pkg_builds)
    /\ fs = [d \in Dirs |-> [state |-> "absent", files |-> {}]]
    /\ ret = Call("__init__", None, Return(None))
    /\ pre = stages
    /\ fs_changes = 0
    /\ br_info = <<>>
    /\ objs = <<>>
    /\ call = <<>>
    /\ ui = <<>>
    /\ app = [pc |-> "initial update", stack |-> <<>>, pending |-> {}, notified |-> {}]

\* main(): the initial update is entered
InitialUpdate ==
    /\ app.pc = "initial update"
    /\ app' = [app EXCEPT !.pc = "show", !.stack = Append(@, Frame("main"))]
    /\ ret' = Call("update", Some("main"), Return(None))
    /\ pre' = stages
    /\ UNCHANGED <<pkg_builds, stages, fs, fs_changes, br_info, objs, call, ui>>

\* main(): w.show() and app.exec_(), once the initial update has returned
Exec ==
    /\ app.pc = "show"
    /\ app.stack = <<>>
    /\ app' = [app EXCEPT !.pc = "exec"]
    /\ UNCHANGED <<pkg_builds, stages, fs, ret, pre, fs_changes, br_info, objs, call, ui>>

\* the interval of the refresh timer elapses: Qt queues its timeout
Timeout ==
    /\ "timeout" \notin app.pending
    /\ app' = [app EXCEPT !.pending = @ \cup {"timeout"}]
    /\ UNCHANGED <<pkg_builds, stages, fs, ret, pre, fs_changes, br_info, objs, call, ui>>

\* the user triggers the Refresh now action of the window which is shown:
\* Qt queues the event
Triggered ==
    /\ app.pc = "exec"
    /\ "triggered" \notin app.pending
    /\ app' = [app EXCEPT !.pending = @ \cup {"triggered"}]
    /\ UNCHANGED <<pkg_builds, stages, fs, ret, pre, fs_changes, br_info, objs, call, ui>>

\* an event loop which delivers an event while a slot is running
Dispatch_nested(event) ==
    /\ app.pc = "exec"
    /\ event \in app.pending
    /\ app' = [app EXCEPT !.pending = @ \ {event}, !.stack = Append(@, Frame(event))]
    /\ ret' = Call("update", Some(event), Return(None))
    /\ pre' = stages
    /\ UNCHANGED <<pkg_builds, stages, fs, fs_changes, br_info, objs, call, ui>>

\* the event loop of app.exec_() delivers a queued event when no slot is
\* running: refresh_timer_timeout() calls update()
Dispatch(event) ==
    /\ app.pc = "exec"
    /\ app.stack = <<>>
    /\ event \in app.pending
    /\ app' = [app EXCEPT !.pending = @ \ {event}, !.stack = Append(@, Frame(event))]
    /\ ret' = Call("update", Some(event), Return(None))
    /\ pre' = stages
    /\ UNCHANGED <<pkg_builds, stages, fs, fs_changes, br_info, objs, call, ui>>

\* a probe whose result is written only while the entry is UNKNOWN
UpdateStep_unknown_only ==
    /\ app.stack # <<>>
    /\ Top.i < Len(pkg_builds)
    /\ LET pkg_build == pkg_builds[Top.i + 1]
           probe == stage_probe(pkg_build, fs, Top.done)
       IN  IF probe.returns
           THEN /\ stages' = IF stages[pkg_build.info.name] = UNKNOWN
                             THEN DictSet(stages, pkg_build.info.name, probe.value)
                             ELSE stages
                /\ app' = [app EXCEPT !.stack[Len(app.stack)] =
                               [@ EXCEPT !.i = @ + 1, !.done = 0,
                                         !.written = @ \cup {pkg_build.info.name}]]
           ELSE /\ stages' = stages
                /\ app' = [app EXCEPT !.stack[Len(app.stack)].done = @ + 1]
    /\ UNCHANGED <<pkg_builds, fs, ret, pre, fs_changes, br_info, objs, call, ui>>

\* the loop of PkgBuildMonitor.update(), one system call at a time: the
\* next has_stamp() of the pkg_build.stage of the iteration in progress;
\* when stage returns, its value is written to the cache and the loop goes
\* to the next package build
UpdateStep ==
    /\ app.stack # <<>>
    /\ Top.i < Len(pkg_builds)
    /\ LET pkg_build == pkg_builds[Top.i + 1]
           probe == stage_probe(pkg_build, fs, Top.done)
       IN  IF probe.returns
           THEN /\ stages' = DictSet(stages, pkg_build.info.name, probe.value)
                /\ app' = [app EXCEPT !.stack[Len(app.stack)] =
                               [@ EXCEPT !.i = @ + 1, !.done = 0,
                                         !.written = @ \cup {pkg_build.info.name}]]
           ELSE /\ stages' = stages
                /\ app' = [app EXCEPT !.stack[Len(app.stack)].done = @ + 1]
    /\ UNCHANGED <<pkg_builds, fs, ret, pre, fs_changes, br_info, objs, call, ui>>

\* the end of _PkgBuildMonitor.update(): the loop is over, `updated` is
\* emitted, its slots run and read the monitor, update() returns
Emit ==
    /\ app.stack # <<>>
    /\ Top.i = Len(pkg_builds)
    /\ ret' = Call("updated", Some(Top.trigger), Return(View))
    /\ app' = [app EXCEPT !.notified = Top.written,
                          !.stack = SubSeq(@, 1, Len(@) - 1)]
    /\ UNCHANGED <<pkg_builds, stages, fs, pre, fs_changes, br_info, objs, call, ui>>

NextApp ==
    \/ InitialUpdate
    \/ Exec
    \/ Timeout
    \/ Triggered
    \/ \E event \in Events : Dispatch(event)
    \/ UpdateStep
    \/ Emit
    \/ \E d \in Dirs : Mkdir(d)
    \/ \E d \in Dirs, file \in AppFiles : Touch(d, file)
    \/ \E d \in Dirs, file \in AppFiles : Unlink(d, file)

SpecApp == InitApp /\ [][NextApp]_vars

\* the application whose refresh timer keeps firing, whose event loop
\* delivers the timeout it has queued and whose code goes on
SpecAppLive ==
    /\ SpecApp
    /\ WF_vars(InitialUpdate)
    /\ WF_vars(Exec)
    /\ WF_vars(Timeout)
    /\ WF_vars(Dispatch("timeout"))
    /\ WF_vars(UpdateStep)
    /\ WF_vars(Emit)

----------------------------------------------------------------------------
(* The monitor over packages which can be installed or not                 *)

\* app as a target package which installs nothing, as one which installs
\* to the staging directory, and a host package
BarInfos ==
    {TargetPkgInfo("app", FALSE, Some("2.0"), None, None, FALSE, FALSE, FALSE, {}),
     TargetPkgInfo("app", FALSE, Some("2.0"), None, None, FALSE, TRUE, FALSE, {}),
     HostPkgInfo("host-cmake", FALSE, None, None, None, {})}

BarBuilds == {PkgBuild(info, BR_BUILD_DIR) : info \in BarInfos}

\* the dicts of package builds: their keys are distinct names
BarMaps ==
    {pbs \in UNION {[1..n -> BarBuilds] : n \in 0..2} :
        \A i, j \in 1..Len(pbs) : i # j => pbs[i].info.name # pbs[j].info.name}

\* the files the build creates and removes in these runs
BarFiles ==
    {File(_STAMP_FILE_PREFIX, "built"), File(_STAMP_FILE_PREFIX, "target_installed"),
     File(_STAMP_FILE_PREFIX, "staging_installed"), File(_STAMP_FILE_PREFIX, "host_installed")}

\* PkgBuildMonitor.__init__ over one of the dicts
InitBars ==
    /\ pkg_builds \in BarMaps
    /\ stages = unknown_stages(pkg_builds)
    /\ fs = [d \in Dirs |-> [state |-> "absent", files |-> {}]]
    /\ ret = Call("__init__", None, Return(None))
    /\ pre = stages
    /\ fs_changes = 0
    /\ br_info = <<>>
    /\ objs = <<>>
    /\ call = [running |-> FALSE, i |-> 0, done |-> 0, at |-> 0, again |-> FALSE]
    /\ ui = <<>>
    /\ app = <<>>

NextBars ==
    \/ UpdateBegins
    \/ UpdateProbe
    \/ UpdateReturns
    \/ UpdateAborted
    \/ BuiltCount
    \/ InstalledCount
    \/ \E d \in Dirs : Mkdir(d)
    \/ \E d \in Dirs, file \in BarFiles : Touch(d, file)
    \/ \E d \in Dirs, file \in BarFiles : Unlink(d, file)

SpecBars == InitBars /\ [][NextBars]_vars

----------------------------------------------------------------------------
(* The package grid and the details pane                                   *)

\* the package build of the given name
pkg_build_of(pbs, name) == pbs[CHOOSE i \in 1..Len(pbs) : pbs[i].info.name = name]

\* _PkgBuildStateDetails._set_dependants: the packages which depend on the
\* package of the given name
dependants(pbs, name) ==
    {pbs[i].info.name : i \in {j \in 1..Len(pbs) : name \in pbs[j].info.dependencies}}

\* the items of the details pane: the direct dependencies and the direct
\* dependants of the package it explains
details_items(pbs, u) ==
    IF u.details = None
    THEN {}
    ELSE pkg_build_of(pbs, u.details[1]).info.dependencies \cup dependants(pbs, u.details[1])

\* the setter which leaves the previous grid item selected
set_selected_pkg_build_keep_previous(u, name) ==
    [u EXCEPT !.is_selected = [@ EXCEPT ![name] = TRUE],
              !.selected = Some(name),
              !.details = Some(name),
              !.visible = TRUE]

\* _PkgBuildStateGrid.selected_pkg_build (setter), with the slot of
\* pkg_build_state_selected: the grid item of the package build is found,
\* the previous one is unselected, this one is selected and the details
\* pane explains it
set_selected_pkg_build(u, name) ==
    LET unselected == IF u.selected # None
                      THEN [u.is_selected EXCEPT ![u.selected[1]] = FALSE]
                      ELSE u.is_selected
    IN  [u EXCEPT !.is_selected = [unselected EXCEPT ![name] = TRUE],
                  !.selected = Some(name),
                  !.details = Some(name),
                  !.visible = TRUE]

\* _YoBrWindow.__init__ over the package builds made from a report: one
\* grid item per package build, none selected, the details pane hidden
InitGrid ==
    /\ br_info \in Reports
    /\ ~pkg_builds_from_make(br_info, BR_BUILD_DIR).raised
    /\ pkg_builds = pkg_builds_from_make(br_info, BR_BUILD_DIR).value
    /\ Len(pkg_builds) > 0
    /\ stages = unknown_stages(pkg_builds)
    /\ fs = [d \in Dirs |-> [state |-> "absent", files |-> {}]]
    /\ ret = Call("__init__", None, Return(None))
    /\ pre = stages
    /\ fs_changes = 0
    /\ objs = <<>>
    /\ call = <<>>
    /\ ui = [is_selected |-> [n \in Keys(pkg_builds) |-> FALSE], selected |-> None,
             details |-> None, visible |-> FALSE]
    /\ app = <<>>

\* _PkgBuildStateGrid._pkg_build_state_clicked: the grid item of the
\* package is clicked
GridClicked(name) ==
    /\ name \in Keys(pkg_builds)
    /\ LET unselected == IF ui.selected # None
                         THEN [ui EXCEPT !.is_selected[ui.selected[1]] = FALSE]
                         ELSE ui
       IN  ui' = IF ui.selected = Some(name)
                 THEN [unselected EXCEPT !.selected = None, !.visible = FALSE]
                 ELSE set_selected_pkg_build(unselected, name)
    /\ ret' = Call("grid clicked", Some(name), Return(None))
    /\ UNCHANGED <<pkg_builds, stages, fs, pre, fs_changes, br_info, objs, call, app>>

\* pkg_build_state_details_clicked: an item of the details pane, which is
\* shown, is clicked
DetailsClicked(name) ==
    /\ ui.visible
    /\ name \in details_items(pkg_builds, ui)
    /\ ui' = set_selected_pkg_build(ui, name)
    /\ ret' = Call("details clicked", Some(name), Return(None))
    /\ UNCHANGED <<pkg_builds, stages, fs, pre, fs_changes, br_info, objs, call, app>>

NextGrid ==
    \/ \E name \in ReportNames : GridClicked(name)
    \/ \E name \in ReportNames : DetailsClicked(name)

SpecGrid == InitGrid /\ [][NextGrid]_vars

----------------------------------------------------------------------------
(* Properties of one package build (checked under SpecStage)               *)

\* the package build probed and its build directory
Probed == pkg_builds[1]

ProbedDir == fs[Probed.build_dir]

\* the marker file of `token` is in the build directory
Present(token) ==
    ProbedDir.state # "absent" /\ File(_STAMP_FILE_PREFIX, token) \in ProbedDir.files

\* the build directory, if there is one, can be listed and searched
Searchable == ProbedDir.state # "noaccess"

\* the stages from the most advanced to the least advanced
StageOrder == <<INSTALLED, BUILT, CONFIGURED, PATCHED, EXTRACTED, DOWNLOADED>>

\* the predicate of a stage, as the package build evaluates it
Holds(pb, f, s) ==
    CASE s = INSTALLED -> is_installed(pb, f)
      [] s = BUILT -> is_built(pb, f)
      [] s = CONFIGURED -> is_configured(pb, f)
      [] s = PATCHED -> is_patched(pb, f)
      [] s = EXTRACTED -> is_extracted(pb, f)
      [] s = DOWNLOADED -> is_downloaded(pb, f)

FirstHolding(pb, f) ==
    LET holding == {i \in 1..Len(StageOrder) : Holds(pb, f, StageOrder[i])}
    IN  IF holding = {}
        THEN UNKNOWN
        ELSE StageOrder[CHOOSE i \in holding : \A j \in holding : i <= j]

\* the marker files of the stages less advanced than s
LessAdvancedFiles(s) ==
    LET tokens ==
            CASE s = INSTALLED -> {"built", "configured", "patched", "extracted", "downloaded"}
              [] s = BUILT -> {"configured", "patched", "extracted", "downloaded"}
              [] s = CONFIGURED -> {"patched", "extracted", "downloaded"}
              [] s = PATCHED -> {"extracted", "downloaded"}
              [] s = EXTRACTED -> {"downloaded"}
              [] OTHER -> {}
    IN  {File(_STAMP_FILE_PREFIX, t) : t \in tokens}

WithFiles(f, d, F) == [f EXCEPT ![d].files = F]

\* C1: PkgBuild.stage is the first stage whose predicate holds in the order
\* INSTALLED, BUILT, CONFIGURED, PATCHED, EXTRACTED, DOWNLOADED, and UNKNOWN
\* when none holds; creating or removing markers of less advanced stages
\* does not change it.
C1_StagePrecedence ==
    ret.op = "PkgBuild.stage" =>
        /\ ret.value = FirstHolding(Probed, fs)
        /\ \A G \in SUBSET LessAdvancedFiles(ret.value) :
              stage(Probed,
                    WithFiles(fs, Probed.build_dir,
                              (ProbedDir.files \ LessAdvancedFiles(ret.value)) \cup G))
                  = ret.value

\* `built` and `configured` both present, not installed: BUILT
C1_Witness ==
    /\ ret.op = "PkgBuild.stage"
    /\ Present("built") /\ Present("configured") /\ Searchable
    /\ ~is_installed(Probed, fs)
    /\ ret.value = BUILT

\* the installed predicate of a target package, from its flags and markers
TargetInstalled ==
    \/ Probed.info.install_target /\ Present("target_installed")
    \/ Probed.info.install_staging /\ Present("staging_installed")
    \/ Probed.info.install_images /\ Present("images_installed")

\* C2: for a target package whose build directory can be searched,
\* is_installed is true exactly when an install flag is set and the marker of
\* that flag is present, and the stage is INSTALLED exactly then.
C2_TargetInstalled ==
    (Probed.info.type = "TargetPkgInfo" /\ Searchable) =>
        /\ ret.op = "PkgBuild.is_installed" => (ret.value <=> TargetInstalled)
        /\ ret.op = "PkgBuild.stage" => (ret.value = INSTALLED <=> TargetInstalled)

\* install_staging alone, `staging_installed` alone: INSTALLED
C2_Witness ==
    /\ ret.op = "PkgBuild.stage"
    /\ Probed.info.type = "TargetPkgInfo"
    /\ Probed.info.install_staging /\ ~Probed.info.install_target
    /\ ProbedDir = [state |-> "dir", files |-> {File(_STAMP_FILE_PREFIX, "staging_installed")}]
    /\ ret.value = INSTALLED

\* C3: for a host package whose build directory can be searched,
\* is_installed is true if and only if the `host_installed` marker is
\* present, and the stage is INSTALLED exactly then.
C3_HostInstalled ==
    (Probed.info.type = "HostPkgInfo" /\ Searchable) =>
        /\ ret.op = "PkgBuild.is_installed" => (ret.value <=> Present("host_installed"))
        /\ ret.op = "PkgBuild.stage" => (ret.value = INSTALLED <=> Present("host_installed"))

\* a host package with `built` and the target markers, without
\* `host_installed`: BUILT
C3_Witness ==
    /\ ret.op = "PkgBuild.stage"
    /\ Probed.info.type = "HostPkgInfo"
    /\ Searchable
    /\ Present("built") /\ Present("target_installed") /\ Present("staging_installed")
    /\ Present("images_installed") /\ ~Present("host_installed")
    /\ ret.value = BUILT

\* C7: when the build directory does not exist, stage is UNKNOWN and stamps
\* returns the empty set, without raising.
C7_MissingBuildDir ==
    ProbedDir.state = "absent" =>
        /\ ret.op = "PkgBuild.stage" => (~ret.raised /\ ret.value = UNKNOWN)
        /\ ret.op = "PkgBuild.stamps" => (~ret.raised /\ ret.value = {})

\* no build directory, a target package with every install flag set
C7_Witness ==
    /\ ProbedDir.state = "absent"
    /\ ret.op = "PkgBuild.stamps"
    /\ ~ret.raised
    /\ Probed.info.type = "TargetPkgInfo"
    /\ Probed.info.install_target /\ Probed.info.install_staging /\ Probed.info.install_images

----------------------------------------------------------------------------
(* Properties of the monitor (checked under Spec)                          *)

\* the stage of each tracked package build, computed from the disk
FreshStage(i) == stage(pkg_builds[i], fs)

\* the disk has not changed since the last update() was called
Quiet == call.at = fs_changes

\* C4: after update() returns, the disk not having changed during the call,
\* the cached stage of every tracked package is the stage its package build
\* computes from the marker files on disk.
C4_RefreshCoherent ==
    (ret.op = "update" /\ ~ret.raised /\ Quiet) =>
        \A i \in 1..Len(pkg_builds) :
            PkgBuildMonitor_stage(stages, pkg_builds[i]) = Return(FreshStage(i))

\* a package whose cached stage was UNKNOWN is BUILT after update()
C4_Witness ==
    /\ ret.op = "update" /\ ~ret.raised /\ Quiet
    /\ \E n \in DOMAIN stages \cap DOMAIN pre : pre[n] = UNKNOWN /\ stages[n] = BUILT

\* C5: when update() raises during its scan, the cache is as it was before
\* the call.
C5_AbortedRefreshRestores ==
    (ret.op = "update" /\ ret.raised) => stages = pre

\* C6: update() on a tracked package whose build directory cannot be
\* searched, the disk not changing during the call, raises the filesystem
\* error; the package is not cached as if its markers were absent.
C6_ProbeErrorPropagates ==
    (/\ ret.op = "update" /\ Quiet
     /\ \E i \in 1..Len(pkg_builds) : fs[pkg_builds[i].build_dir].state = "noaccess")
        => (ret.raised /\ ret.value = "PermissionError")

\* C8: the keys of the cache are the names of the tracked packages, one
\* entry each, in every state; right after the construction of the monitor
\* or the replacement of its package builds every entry is UNKNOWN.
C8_CacheKeys ==
    /\ DOMAIN stages = Keys(pkg_builds)
    /\ Cardinality(DOMAIN stages) = Len(pkg_builds)
    /\ ret.op \in {"__init__", "pkg_builds"} => \A n \in DOMAIN stages : stages[n] = UNKNOWN

\* the package builds are replaced while the cache holds another stage for a
\* package which stays, and another set of names
C8_Witness ==
    /\ ret.op = "pkg_builds"
    /\ DOMAIN pre # DOMAIN stages
    /\ \E n \in DOMAIN stages \cap DOMAIN pre : pre[n] = INSTALLED /\ stages[n] = UNKNOWN

\* C9: only update() and the replacement of the package builds change the
\* cache; stage() returns the entry of the cache, whatever the disk holds.
C9_OnlyRefreshWrites ==
    [][/\ stages' # stages => (call.running \/ ret'.op = "pkg_builds")
       /\ (ret'.op = "stage" /\ ~ret'.raised) =>
              (stages' = stages /\ ret'.value = stages[ret'.arg[1]])]_vars

\* stage() returns UNKNOWN for a package whose `built` marker is on disk
C9_Witness ==
    /\ ret.op = "stage" /\ ~ret.raised
    /\ ret.value = UNKNOWN
    /\ \E i \in 1..Len(pkg_builds) :
          pkg_builds[i].info.name = ret.arg[1] /\ FreshStage(i) = BUILT

\* C10: built_count is the number of tracked packages cached as BUILT or
\* INSTALLED and installed_count the number cached as INSTALLED, in every
\* state; right after an update() during which the disk has not changed
\* built_count is the number of tracked packages whose stage computed from
\* the disk is BUILT or INSTALLED.
C10_Counts ==
    /\ built_count(pkg_builds, stages)
          = Cardinality({n \in Keys(pkg_builds) : stages[n] \in {BUILT, INSTALLED}})
    /\ installed_count(pkg_builds, stages)
          = Cardinality({n \in Keys(pkg_builds) : stages[n] = INSTALLED})
    /\ ret.op = "built_count" =>
          ret.value = Cardinality({n \in Keys(pkg_builds) : stages[n] \in {BUILT, INSTALLED}})
    /\ ret.op = "installed_count" =>
          ret.value = Cardinality({n \in Keys(pkg_builds) : stages[n] = INSTALLED})
    /\ (ret.op = "update" /\ ~ret.raised /\ Quiet) =>
          built_count(pkg_builds, stages)
              = Cardinality({i \in 1..Len(pkg_builds) : FreshStage(i) \in {BUILT, INSTALLED}})

\* after update(): two packages built, one of them installed
C10_Witness ==
    /\ ret.op = "update" /\ ~ret.raised
    /\ built_count(pkg_builds, stages) = 2
    /\ installed_count(pkg_builds, stages) = 1

\* C11: stage() of a package build whose name is tracked returns the entry
\* of the cache; stage() of one whose name is not tracked raises KeyError
\* and returns no stage; in both cases the cache and the tracked package
\* builds are left as they were.
C11_StageLookup ==
    [][ret'.op = "stage" =>
          /\ ret'.arg[1] \in Keys(pkg_builds) =>
                 (~ret'.raised /\ ret'.value = stages[ret'.arg[1]])
          /\ ret'.arg[1] \notin Keys(pkg_builds) =>
                 (ret'.raised /\ ret'.value = "KeyError")
          /\ stages' = stages
          /\ pkg_builds' = pkg_builds]_vars

\* stage() of an untracked package build has raised while another package
\* is tracked with a stage read from the disk
C11_Witness ==
    /\ ret.op = "stage" /\ ret.raised
    /\ ret.arg[1] \notin Keys(pkg_builds)
    /\ \E n \in DOMAIN stages : stages[n] # UNKNOWN

----------------------------------------------------------------------------
(* The graph builder: claims                                               *)

\* the graph builder has been applied to the report
Built == ret.op = "pkg_infos_from_br_info"

\* the package names of the model which begin with skeleton or
\* host-skeleton
SkeletonNames == {"skeleton", "skeleton-init", "host-skeleton"}

\* the entry is one the graph builder leaves out: a skeleton package or a
\* root file system package
Excluded(name, br_pkg_info) ==
    \/ name \in SkeletonNames
    \/ "type" \in DOMAIN br_pkg_info /\ br_pkg_info["type"] = PyStr("rootfs")

\* the indexes of the entries of the report which are not left out
Kept(report) == {i \in 1..Len(report) : ~Excluded(report[i][1], report[i][2])}

\* the exception's message contains the text
Mentions(exc, text) == \E k \in 1..Len(message(exc)) : message(exc)[k] = text

\* C13: when the graph builder fails, the message of the error contains the
\* name of a package of the report which is not left out (the package whose
\* validation failed), whatever the failure: wrong-typed field, unknown
\* type, no type at all, dependencies which are not a list.
C13_FailureNamesPackage ==
    (Built /\ ret.raised) =>
        \E i \in Kept(br_info) : Mentions(ret.value, br_info[i][1])

\* the entry has a type, which is neither "target" nor "host"
BadType(br_pkg_info) ==
    /\ "type" \in DOMAIN br_pkg_info
    /\ br_pkg_info["type"] \notin {PyStr("target"), PyStr("host")}

\* a package information object can be created from the entry
Creatable(name, br_pkg_info) ==
    /\ "type" \in DOMAIN br_pkg_info
    /\ ~pkg_info_from_br_pkg_info(br_pkg_info, name).raised

\* C14: a report with an entry which is not left out and whose type is
\* neither "target" nor "host" makes the graph builder fail: it returns no
\* mapping; when this entry is the first one from which no package
\* information object can be created, the message of the error contains its
\* name.
C14_UnknownTypeFails ==
    Built =>
        \A i \in Kept(br_info) :
            BadType(br_info[i][2]) =>
                /\ ret.raised
                /\ (\A j \in Kept(br_info) :
                        j < i => Creatable(br_info[j][1], br_info[j][2]))
                      => Mentions(ret.value, br_info[i][1])

\* the second entry of the report has the type "weird", the first is a
\* valid one, and the builder has failed naming the second
C14_Witness ==
    /\ Built /\ ret.raised
    /\ Len(br_info) >= 2
    /\ 1 \in Kept(br_info) /\ Creatable(br_info[1][1], br_info[1][2])
    /\ 2 \in Kept(br_info) /\ BadType(br_info[2][2])
    /\ Mentions(ret.value, br_info[2][1])
    /\ Mentions(ret.value, "weird")

\* C15: when the graph builder succeeds, each key of its result maps to a
\* package information object of that name, and the keys are exactly the
\* names of the entries of the report which are neither skeleton packages
\* nor root file system packages.
C15_ResultKeys ==
    (Built /\ ~ret.raised) =>
        /\ \A k \in 1..Len(ret.value) : ret.value[k][2].name = ret.value[k][1]
        /\ \A k, l \in 1..Len(ret.value) : ret.value[k][1] = ret.value[l][1] => k = l
        /\ dict_keys(ret.value) = {br_info[i][1] : i \in Kept(br_info)}
        /\ \A i \in 1..Len(br_info) :
              Excluded(br_info[i][1], br_info[i][2]) => br_info[i][1] \notin dict_keys(ret.value)

\* a report of a package, a skeleton package and a root file system
\* package: the result holds the package alone
C15_Witness ==
    /\ Built /\ ~ret.raised
    /\ Len(ret.value) = 1
    /\ \E i \in 1..Len(br_info) : br_info[i][1] = "skeleton-init"
    /\ \E i \in 1..Len(br_info) : br_info[i][1] = "ext2"

\* the names the entry declares as its dependencies
Declared(br_pkg_info) ==
    IF "dependencies" \in DOMAIN br_pkg_info /\ pytype(br_pkg_info["dependencies"]) = "list"
    THEN {items(br_pkg_info["dependencies"])[k] :
              k \in 1..Len(items(br_pkg_info["dependencies"]))}
    ELSE {}

\* the dependencies field of the entry, when it has one, is a list
ListedDependencies(br_pkg_info) ==
    "dependencies" \in DOMAIN br_pkg_info => pytype(br_pkg_info["dependencies"]) = "list"

\* C16: in the result of the graph builder the dependencies of a package
\* information object are exactly the declared names which are keys of the
\* result, so no dependency is outside the result; a declared name which is
\* absent from the report or left out raises no error.
C16_DependenciesInResult ==
    /\ (Built /\ ~ret.raised) =>
          \A k \in 1..Len(ret.value) :
              /\ ret.value[k][2].dependencies
                    = Declared(dict_get(br_info, ret.value[k][1])) \cap dict_keys(ret.value)
              /\ ret.value[k][2].dependencies \subseteq dict_keys(ret.value)
    /\ (/\ Built
        /\ \A i \in Kept(br_info) :
              /\ Creatable(br_info[i][1], br_info[i][2])
              /\ ListedDependencies(br_info[i][2])) => ~ret.raised

\* app declares libfoo (twice), zlib which the report does not have, ext2
\* which is a root file system package of the report and a skeleton
\* package: libfoo alone is linked
C16_Witness ==
    /\ Built /\ ~ret.raised
    /\ \E k \in 1..Len(ret.value) :
          /\ ret.value[k][1] = "app"
          /\ ret.value[k][2].dependencies = {"libfoo"}
          /\ {"zlib", "ext2", "skeleton-init"} \subseteq Declared(dict_get(br_info, "app"))
    /\ "ext2" \in dict_keys(br_info)

\* the permutations of 1..n
KeyOrders(n) == {p \in [1..n -> 1..n] : \A i, j \in 1..n : p[i] = p[j] => i = j}

\* the sequence read from its end
Reverse(seq) == [k \in 1..Len(seq) |-> seq[Len(seq) + 1 - k]]

\* the entry with its dependency list, when it has one, as it is, read
\* from its end or written twice
VaryDependencies(br_pkg_info, how) ==
    IF "dependencies" \in DOMAIN br_pkg_info /\ pytype(br_pkg_info["dependencies"]) = "list"
    THEN [br_pkg_info EXCEPT !["dependencies"] =
              CASE how = "same" -> @
                [] how = "reversed" -> PyList(Reverse(items(@)))
                [] how = "twice" -> PyList(items(@) \o items(@))]
    ELSE br_pkg_info

\* the report with its keys in the order p and its dependency lists varied
VaryReport(report, p, how) ==
    [k \in 1..Len(report) |-> <<report[p[k]][1], VaryDependencies(report[p[k]][2], how)>>]

\* the dependency edges of a graph, by name
Edges(pkg_infos) ==
    UNION {{<<pkg_infos[k][1], d>> : d \in pkg_infos[k][2].dependencies} :
              k \in 1..Len(pkg_infos)}

\* C17: the graph builder applied to the same report with its keys in any
\* other order, and with its dependency lists in another order or with
\* duplicates, fails if and only if it failed, and otherwise returns the same
\* package names and the same dependency edges.
C17_OrderIndependent ==
    Built =>
        \A p \in KeyOrders(Len(br_info)) :
            \A how \in {"same", "reversed", "twice"} :
                LET other == pkg_infos_from_br_info(VaryReport(br_info, p, how))
                IN  /\ other.raised = ret.raised
                    /\ ~ret.raised =>
                          /\ dict_keys(other.value) = dict_keys(ret.value)
                          /\ Edges(other.value) = Edges(ret.value)

\* a graph of three packages whose first one depends on the other two,
\* created after it, and is a dependency of one of them
C17_Witness ==
    /\ Built /\ ~ret.raised
    /\ Len(ret.value) = 3
    /\ ret.value[1][2].dependencies \cap {ret.value[2][1], ret.value[3][1]} # {}
    /\ \E k \in 2..3 : ret.value[1][1] \in ret.value[k][2].dependencies
    /\ Cardinality(Edges(ret.value)) >= 3

\* C18 (as stated): in the result of the graph builder no package
\* information object is among its own dependencies.
C18_NoSelfLoop ==
    (Built /\ ~ret.raised) =>
        \A k \in 1..Len(ret.value) : ret.value[k][1] \notin ret.value[k][2].dependencies

\* C18 (amended): in the result of the graph builder a package information
\* object is among its own dependencies if and only if its entry of the
\* report declares its own name as a dependency.
C18_SelfLoopIffDeclared ==
    (Built /\ ~ret.raised) =>
        \A k \in 1..Len(ret.value) :
            ret.value[k][1] \in ret.value[k][2].dependencies
                <=> ret.value[k][1] \in Declared(dict_get(br_info, ret.value[k][1]))

\* app, whose entry declares app, depends on itself and on libfoo
C18_Witness ==
    /\ Built /\ ~ret.raised
    /\ \E k \in 1..Len(ret.value) :
          /\ ret.value[k][1] = "app"
          /\ ret.value[k][2].dependencies = {"app", "libfoo"}

\* the type each field of an entry is read with
FieldType ==
    [virtual |-> "bool", version |-> "str", licenses |-> "str", dl_dir |-> "str",
     type |-> "str", install_target |-> "bool", install_staging |-> "bool",
     install_images |-> "bool", dependencies |-> "list"]

InstallFlags == {"install_target", "install_staging", "install_images"}

\* the entry describes a target package, a host package
IsTarget(br_pkg_info) == "type" \in DOMAIN br_pkg_info /\ br_pkg_info["type"] = PyStr("target")

IsHost(br_pkg_info) == "type" \in DOMAIN br_pkg_info /\ br_pkg_info["type"] = PyStr("host")

\* the fields read from the entry: the install flags are for target
\* packages only
FieldsRead(br_pkg_info) ==
    (DOMAIN FieldType \ InstallFlags)
        \cup (IF IsTarget(br_pkg_info) THEN InstallFlags ELSE {})

\* a field which is read is present with another type than its own
WrongTyped(br_pkg_info) ==
    \E f \in FieldsRead(br_pkg_info) \cap DOMAIN br_pkg_info :
        pytype(br_pkg_info[f]) # FieldType[f]

\* the value of a bool field, of a str field: its default when absent
BoolOr(br_pkg_info, f) == IF f \in DOMAIN br_pkg_info THEN br_pkg_info[f][2] = "True" ELSE FALSE

StrOr(br_pkg_info, f) == IF f \in DOMAIN br_pkg_info THEN Some(br_pkg_info[f][2]) ELSE None

\* C19: for a report of one entry, which is not left out: the graph builder
\* fails when a field it reads is present with the wrong type, and when type
\* is absent; otherwise, for the types target and host, it returns, and an
\* absent field has its default: false for virtual and the install flags,
\* None for version, licenses and dl_dir, no dependency for dependencies;
\* the install flags are read for a target package only: a host package has
\* none, whatever its entry holds under their names.
C19_FieldReading ==
    (Built /\ Len(br_info) = 1 /\ Kept(br_info) = {1}) =>
        LET e == br_info[1][2]
            info == ret.value[1][2]
        IN  /\ WrongTyped(e) => ret.raised
            /\ "type" \notin DOMAIN e => ret.raised
            /\ ret.raised <=> (WrongTyped(e) \/ ~(IsTarget(e) \/ IsHost(e)))
            /\ ~ret.raised =>
                  /\ info.type = (IF IsTarget(e) THEN "TargetPkgInfo" ELSE "HostPkgInfo")
                  /\ info.is_virtual = BoolOr(e, "virtual")
                  /\ info.version
                        = (IF StrOr(e, "version") = Some("") THEN None ELSE StrOr(e, "version"))
                  /\ info.licenses = StrOr(e, "licenses")
                  /\ info.dl_dir = StrOr(e, "dl_dir")
                  /\ info.dependencies = Declared(e) \cap {br_info[1][1]}
                  /\ IsTarget(e) =>
                        /\ info.install_target = BoolOr(e, "install_target")
                        /\ info.install_staging = BoolOr(e, "install_staging")
                        /\ info.install_images = BoolOr(e, "install_images")
                  /\ IsHost(e) => DOMAIN info \cap InstallFlags = {}

\* a host package whose entry has a str for install_target and nothing but
\* its type else: the builder returns it with every default
C19_Witness ==
    /\ Built /\ ~ret.raised
    /\ Len(br_info) = 1
    /\ IsHost(br_info[1][2])
    /\ DOMAIN br_info[1][2] = {"type", "install_target"}
    /\ pytype(br_info[1][2]["install_target"]) = "str"
    /\ ret.value[1][2].version = None
    /\ ~ret.value[1][2].is_virtual

\* C20 (as stated): two package information objects are equal if and only
\* if their names are equal, a target one and a host one of the same name
\* included, and equal objects have equal hashes.
C20_EqualIffSameName ==
    /\ ret.op = "__eq__" => (ret.value <=> objs.self.name = objs.other.name)
    /\ (ret.op = "__hash__" /\ objs.self.name = objs.other.name) =>
          ret.value[1] = ret.value[2]

\* C20 (amended): two package information objects are equal if and only if
\* they are of the same class and their names are equal; equal objects have
\* equal hashes (as have a target one and a host one of the same name, which
\* are not equal).
C20_EqualIffSameClassAndName ==
    /\ ret.op = "__eq__" =>
          (ret.value <=> (/\ objs.self.type = objs.other.type
                          /\ objs.self.name = objs.other.name))
    /\ (ret.op = "__hash__" /\ objs.self.name = objs.other.name) =>
          ret.value[1] = ret.value[2]

\* a target package and a host package, both named app, have been compared
\* and are not equal
C20_Witness ==
    /\ ret.op = "__eq__" /\ ~ret.value
    /\ objs.self.type = "TargetPkgInfo" /\ objs.other.type = "HostPkgInfo"
    /\ objs.self.name = "app" /\ objs.other.name = "app"

\* C12: in the application, two update() calls never overlap, and when the
\* slots connected to `updated` read the monitor, the update() which
\* notifies them has written the entry of every package build: what they
\* read is the cache that this update() leaves, with no entry older than
\* it.
C12_NoPartialView ==
    /\ Len(app.stack) <= 1
    /\ ret.op = "updated" =>
          /\ app.notified = Keys(pkg_builds)
          /\ app.stack = <<>>
          /\ ret.value.stages = stages
          /\ ret.value.built_count
                = Cardinality({n \in Keys(pkg_builds) : stages[n] \in {BUILT, INSTALLED}})

\* the timeout and the Refresh now action are both queued while an update()
\* which the timer started is half done, over two package builds
C12_Witness ==
    /\ Len(pkg_builds) = 2
    /\ Len(app.stack) = 1
    /\ Top.trigger = "timeout" /\ Top.i = 1
    /\ app.pending = {"timeout", "triggered"}
    /\ \E n \in Keys(pkg_builds) : stages[n] = BUILT

\* the directory name of the package build made from the entry: the name,
\* then the version when the entry has one which is not empty
BuildDirOf(name, br_pkg_info) ==
    IF "version" \in DOMAIN br_pkg_info /\ br_pkg_info["version"] # PyStr("")
    THEN <<BR_BUILD_DIR, name, "-", br_pkg_info["version"][2]>>
    ELSE <<BR_BUILD_DIR, name>>

\* C21: the build directory of a package build is <build root>/<name> when
\* its package has no version and <build root>/<name>-<version> when it has
\* one; an empty version of the report counts as none; this holds from the
\* creation of the package build on, whatever is called next.
C21_BuildDir ==
    \A i \in 1..Len(pkg_builds) :
        LET pkg_build == pkg_builds[i]
        IN  /\ pkg_build.info.version = None =>
                  pkg_build.build_dir = <<BR_BUILD_DIR, pkg_build.info.name>>
            /\ pkg_build.info.version # None =>
                  pkg_build.build_dir
                      = <<BR_BUILD_DIR, pkg_build.info.name, "-", pkg_build.info.version[1]>>
            /\ pkg_build.build_dir
                  = BuildDirOf(pkg_build.info.name, dict_get(br_info, pkg_build.info.name))
            /\ pkg_build.build_dir # <<BR_BUILD_DIR, pkg_build.info.name, "-", "">>

\* package builds made from a report whose entry for app has an empty
\* version and whose entry for libfoo has the version 1.2, after a later
\* call of the graph builder
C21_Witness ==
    /\ Built
    /\ \E i, j \in 1..Len(pkg_builds) :
          /\ pkg_builds[i].info.name = "app"
          /\ dict_get(br_info, "app")["version"] = PyStr("")
          /\ pkg_builds[i].build_dir = <<BR_BUILD_DIR, "app">>
          /\ pkg_builds[j].build_dir = <<BR_BUILD_DIR, "libfoo", "-", "1.2">>

\* C22: is_installable of a target package is true exactly when one at
\* least of its three install flags is true; is_installable of a host
\* package is true.
C22_IsInstallable ==
    ret.op = "is_installable" =>
        /\ Probed.info.type = "TargetPkgInfo" =>
              (ret.value <=> (\/ Probed.info.install_target
                              \/ Probed.info.install_staging
                              \/ Probed.info.install_images))
        /\ Probed.info.type = "HostPkgInfo" => ret.value

\* a target package whose only install flag is install_images is
\* installable
C22_Witness ==
    /\ ret.op = "is_installable" /\ ret.value
    /\ Probed.info.type = "TargetPkgInfo"
    /\ ~Probed.info.install_target /\ ~Probed.info.install_staging
    /\ Probed.info.install_images

\* the place of a stage in the progress of a build
Rank(s) ==
    CASE s = UNKNOWN -> 0 [] s = DOWNLOADED -> 1 [] s = EXTRACTED -> 2 [] s = PATCHED -> 3
      [] s = CONFIGURED -> 4 [] s = BUILT -> 5 [] s = INSTALLED -> 6

\* C23: when the build only creates files and directories while a stage()
\* call runs its probes one after the other, the stage which the call
\* returns is no lower than the stage the disk gave when the call began and
\* no higher than the stage the disk gives when it returns.
C23_StageBetween ==
    ret.op = "PkgBuild.stage" =>
        /\ Rank(call.start) <= Rank(ret.value)
        /\ Rank(ret.value) <= Rank(stage(Probed, fs))

\* a call which began on a disk giving DOWNLOADED returns CONFIGURED while
\* the disk gives BUILT: the markers were created during the call, the
\* built one after its probe
C23_Witness ==
    /\ ret.op = "PkgBuild.stage"
    /\ call.start = DOWNLOADED
    /\ ret.value = CONFIGURED
    /\ stage(Probed, fs) = BUILT

\* the number of tracked package builds whose package can be installed:
\* the maximum of the progress bar of the installed packages
InstallableCount ==
    Cardinality({i \in 1..Len(pkg_builds) : is_installable(pkg_builds[i].info)})

\* C24: in every state of the monitor, 0 <= installed_count <= built_count
\* <= the number of tracked package builds, and installed_count <= the
\* number of tracked package builds whose package is installable: a target
\* package without any install flag is never cached as INSTALLED; the
\* counts which the properties return are within these ranges.
C24_CountsInRange ==
    /\ 0 <= installed_count(pkg_builds, stages)
    /\ installed_count(pkg_builds, stages) <= built_count(pkg_builds, stages)
    /\ built_count(pkg_builds, stages) <= Len(pkg_builds)
    /\ installed_count(pkg_builds, stages) <= InstallableCount
    /\ \A i \in 1..Len(pkg_builds) :
          ~is_installable(pkg_builds[i].info) => stages[pkg_builds[i].info.name] # INSTALLED
    /\ ret.op = "built_count" => (0 <= ret.value /\ ret.value <= Len(pkg_builds))
    /\ ret.op = "installed_count" => (0 <= ret.value /\ ret.value <= InstallableCount)

\* app installs nothing and its directory holds the built and the
\* target_installed markers; host-cmake is tracked too: after update(),
\* app is cached as BUILT and installed_count has returned 0
C24_Witness ==
    /\ ret.op = "installed_count" /\ ret.value = 0
    /\ Len(pkg_builds) = 2
    /\ InstallableCount = 1
    /\ built_count(pkg_builds, stages) = 1
    /\ \E i \in 1..Len(pkg_builds) :
          /\ ~is_installable(pkg_builds[i].info)
          /\ File(_STAMP_FILE_PREFIX, "target_installed") \in fs[pkg_builds[i].build_dir].files
          /\ stages[pkg_builds[i].info.name] = BUILT

\* C25: the cache which an update() leaves, the disk not having changed
\* during the call, depends on the tracked package builds and on the disk
\* only, whatever the cache held before: it is the stage which the disk
\* gives for each of them; and an update() which follows such an update()
\* without any change of the disk in between leaves the cache as it was.
C25_RefreshHistoryIndependent ==
    [][(ret'.op = "update" /\ ~ret'.raised /\ call'.at = fs_changes') =>
          /\ stages' = [n \in Keys(pkg_builds) |->
                            stage(pkg_build_of(pkg_builds, n), fs)]
          /\ call.again => stages' = pre]_vars

\* update() has taken a package from BUILT back to UNKNOWN: its marker
\* has been removed
C25_Witness ==
    /\ ret.op = "update" /\ ~ret.raised
    /\ \E i \in 1..Len(pkg_builds) :
          /\ pre[pkg_builds[i].info.name] = BUILT
          /\ stages[pkg_builds[i].info.name] = UNKNOWN
          /\ fs[pkg_builds[i].build_dir].files = {}

\* the cache holds, for every tracked package build, the stage which the
\* disk gives
Coherent == \A i \in 1..Len(pkg_builds) : stages[pkg_builds[i].info.name] = FreshStage(i)

\* C26: in the application whose timer keeps firing, the window is shown
\* only after a first update() has written the whole cache, and once the
\* build has stopped changing the disk the cache comes to hold the stage
\* which the disk gives for every tracked package build, and holds it from
\* then on, whatever notifications follow.
C26_EventuallyFresh ==
    /\ [](app.pc = "exec" => app.notified = Keys(pkg_builds))
    /\ <>[]Coherent

\* the window is shown, the build has changed the disk, and an update()
\* which the timer started has notified a cache which is what the disk
\* gives, with a package past UNKNOWN
C26_Witness ==
    /\ app.pc = "exec"
    /\ ret.op = "updated" /\ ret.arg = Some("timeout")
    /\ fs_changes >= 2
    /\ Coherent
    /\ \E n \in DOMAIN stages : stages[n] # UNKNOWN

\* the grid items which are selected
SelectedItems == {n \in DOMAIN ui.is_selected : ui.is_selected[n]}

\* C27: at most one grid item is selected, and the selected ones are the
\* current selection: none when there is none; a click on the grid item
\* which is the current selection leaves no item selected; a click on any
\* other grid item, or on an item of the details pane, makes the grid item
\* of that package the selected one, and the only one.
C27_SingleSelection ==
    /\ [](/\ Cardinality(SelectedItems) <= 1
          /\ SelectedItems = (IF ui.selected = None THEN {} ELSE {ui.selected[1]}))
    /\ [][/\ (ret'.op = "grid clicked" /\ ui.selected = ret'.arg) =>
                 (ui'.selected = None /\ \A n \in DOMAIN ui'.is_selected : ~ui'.is_selected[n])
          /\ \/ ret'.op = "grid clicked" /\ ui.selected # ret'.arg
             \/ ret'.op = "details clicked"
             => /\ ui'.selected = ret'.arg
                /\ \A n \in DOMAIN ui'.is_selected : ui'.is_selected[n] <=> n = ret'.arg[1]]_vars

\* an item of the details pane has been clicked, in a grid of three
\* packages: its grid item is the selected one, and the only one, and the
\* details pane explains it
C27_Witness ==
    /\ ret.op = "details clicked"
    /\ Len(pkg_builds) = 3
    /\ ui.selected = ret.arg
    /\ SelectedItems = {ret.arg[1]}
    /\ ui.details = ret.arg

====
